---- MODULE Spec2Model ----
(***************************************************************************)
(* The event-context memory engine of the brain-weights microservices.     *)
(* The state machine follows src/27/server.py (module-level caches, the    *)
(* lifespan handler, the hourly background reload and the /values and      *)
(* /weights handlers); the weight-code codec follows                       *)
(* src/30/ecb_rate_weights.py, the startup of the older service            *)
(* src/23/server_23.py, the variant table and GET /new_weights             *)
(* src/32/server.py, and the registry of weight codes src/25/weights.py.   *)
(*                                                                         *)
(* Floats are exact decimals: [n, d, e] stands for (n / d) * 10^e.         *)
(* Timestamps are whole hours counted from 2024-01-01 00:00:00.            *)
(* An optional value (Python None, SQL NULL) is a sequence of length 0 or  *)
(* 1: <<>> is None and <<v>> is the value v.                               *)
(***************************************************************************)
EXTENDS Integers, Sequences, FiniteSets, TLC

VARIABLES
    db,                    \* the version of the databases' content
    GLOBAL_WEIGHT_CODES,   \* the module-level caches of the server
    GLOBAL_CTX_INDEX,
    GLOBAL_CALENDAR,
    GLOBAL_HISTORY,
    GLOBAL_RATES,
    GLOBAL_LAST_CANDLES,
    GLOBAL_CANDLE_RANGES,
    GLOBAL_AVG_RANGE,
    GLOBAL_EXTREMUMS,
    LAST_RELOAD_TIME,
    lifespan_pc,           \* where the lifespan handler stands
    task_pc,               \* where the background_reload_data task stands
    preload_pc,            \* the await preload_all_data is suspended at
    response,              \* the response of the handler that has just run
    asked,                 \* history: an earlier response, kept to compare
    tags,                  \* history: which build each section comes from
    started_from,          \* history: the snapshot when the reload started
    outcome,               \* history: how the last background reload ended
    failures,              \* history: how many background reloads have raised
    traced,                \* history: how many calls of send_error_trace
    codec,                 \* the weight-code tuple under the codec
    GLOBAL_EVENT_TYPES,    \* the caches that only src/32/server.py has
    GLOBAL_CANDLE_SIZES,
    GLOBAL_CANDLE_THRESHOLD,
    applied                \* a pure function's arguments and its result

vars == << db, GLOBAL_WEIGHT_CODES, GLOBAL_CTX_INDEX, GLOBAL_CALENDAR,
           GLOBAL_HISTORY, GLOBAL_RATES, GLOBAL_LAST_CANDLES,
           GLOBAL_CANDLE_RANGES, GLOBAL_AVG_RANGE, GLOBAL_EXTREMUMS,
           LAST_RELOAD_TIME, lifespan_pc, task_pc, preload_pc, response,
           asked, tags, started_from, outcome, failures, traced,
           codec, GLOBAL_EVENT_TYPES, GLOBAL_CANDLE_SIZES,
           GLOBAL_CANDLE_THRESHOLD, applied >>

\* what the servers and the codec above leave alone
beside == << GLOBAL_EVENT_TYPES, GLOBAL_CANDLE_SIZES, GLOBAL_CANDLE_THRESHOLD,
            applied >>

\* ------------------------------------------------------------------------
\* Optional values and dictionaries
\* ------------------------------------------------------------------------

None == <<>>

Some(v) == <<v>>

IsNone(o) == Len(o) = 0

Val(o) == o[1]

EmptyDict == [k \in {} |-> {}]

\* dict.get(k, default)
Get(dict, k, default) == IF k \in DOMAIN dict THEN dict[k] ELSE default

\* dict[k] = v
Put(dict, k, v) == [x \in (DOMAIN dict) \cup {k} |-> IF x = k THEN v ELSE dict[x]]

Range(s) == {s[i] : i \in DOMAIN s}

\* ------------------------------------------------------------------------
\* Exact decimal arithmetic standing for Python floats
\* ------------------------------------------------------------------------

Min2(a, b) == IF a <= b THEN a ELSE b

Abs(a) == IF a < 0 THEN -a ELSE a

RECURSIVE Pow10(_)
Pow10(k) == IF k <= 0 THEN 1 ELSE 10 * Pow10(k - 1)

RECURSIVE Gcd(_, _)
Gcd(a, b) == IF b = 0 THEN a ELSE Gcd(b, a % b)

\* the decimal n * 10^e
Num(n, e) == [n |-> n, d |-> 1, e |-> e]

Zero == Num(0, 0)

\* a rational in lowest terms, zero always written 0/1 * 10^0
Norm(n, d, e) ==
    IF n = 0 THEN Zero
    ELSE LET g == Gcd(Abs(n), d) IN [n |-> n \div g, d |-> d \div g, e |-> e]

\* the numerator of a once it is written with the exponent m <= a.e
NumAt(a, m) == a.n * Pow10(a.e - m)

NumAdd(a, b) ==
    IF a.n = 0 THEN b
    ELSE IF b.n = 0 THEN a
    ELSE LET m == Min2(a.e, b.e)
         IN Norm(NumAt(a, m) * b.d + NumAt(b, m) * a.d, a.d * b.d, m)

NumNeg(a) == [a EXCEPT !.n = -a.n]

NumSub(a, b) == NumAdd(a, NumNeg(b))

NumMul(a, b) == Norm(a.n * b.n, a.d * b.d, a.e + b.e)

NumDivInt(a, k) == Norm(a.n, a.d * k, a.e)

NumAbs(a) == [a EXCEPT !.n = Abs(a.n)]

NumLt(a, b) ==
    LET m == Min2(a.e, b.e) IN NumAt(a, m) * b.d < NumAt(b, m) * a.d

NumLe(a, b) == ~NumLt(b, a)

NumIsZero(a) == a.n = 0

RECURSIVE NumSum(_)
NumSum(s) == IF s = <<>> THEN Zero ELSE NumAdd(Head(s), NumSum(Tail(s)))

\* n / dd rounded to the nearest integer, a tie going to the even one (dd > 0)
RoundHalfEven(n, dd) ==
    LET q == n \div dd
        r == n % dd
    IN IF 2 * r > dd THEN q + 1
       ELSE IF 2 * r < dd THEN q
       ELSE IF q % 2 = 0 THEN q ELSE q + 1

\* six decimal digits of r / dd by long division: <<digits so far, remainder>>
RECURSIVE LongDiv(_, _, _, _)
LongDiv(f, r, dd, steps) ==
    IF steps = 0 THEN <<f, r>>
    ELSE LongDiv(f * 10 + ((r * 10) \div dd), (r * 10) % dd, dd, steps - 1)

\* A value rounded to six decimals, written whole + micro / 10^6 with
\* 0 <= micro < 10^6 (so -0.25 is whole = -1, micro = 750000).
Fixed(whole, micro) == [whole |-> whole, micro |-> micro]

FixedZero == Fixed(0, 0)

\* round(v, 6)
Round6(v) ==
    IF v.e < -6
    THEN LET m == RoundHalfEven(v.n, v.d * Pow10(-6 - v.e))
         IN Fixed(m \div 1000000, m % 1000000)
    ELSE LET nn == IF v.e >= 0 THEN v.n * Pow10(v.e) ELSE v.n
             dd == IF v.e >= 0 THEN v.d ELSE v.d * Pow10(-v.e)
             w  == nn \div dd
             fr == LongDiv(0, nn % dd, dd, 6)
             up == \/ 2 * fr[2] > dd
                   \/ (2 * fr[2] = dd /\ fr[1] % 2 = 1)
             f  == IF up THEN fr[1] + 1 ELSE fr[1]
         IN IF f = 1000000 THEN Fixed(w + 1, 0) ELSE Fixed(w, f)

\* ------------------------------------------------------------------------
\* Timestamps and date strings
\* ------------------------------------------------------------------------

HoursPerDay == 24

\* the months of 2024
DaysInMonth == <<31, 29, 31, 30, 31, 30, 31, 31, 30, 31, 30, 31>>

RECURSIVE DaysBefore(_)
DaysBefore(month) ==
    IF month <= 1 THEN 0 ELSE DaysInMonth[month - 1] + DaysBefore(month - 1)

\* datetime(2024, month, day, hour) as hours since 2024-01-01 00:00:00
ToHours(month, day, hour) == (DaysBefore(month) + day - 1) * HoursPerDay + hour

ValidDate(month, day) ==
    /\ month \in 1..12
    /\ day >= 1
    /\ day <= DaysInMonth[month]

\* A request's date string.  shape "space" is '2024-<f2>-<f3> <hh>:00:00',
\* shape "T" is '2024-<f2>-<f3>T<hh>:00:00', shape "date" is '2024-<f2>-<f3>'
\* and shape "junk" is any other text ('not-a-date').
DateStr(shape, f2, f3, hh) == [shape |-> shape, f2 |-> f2, f3 |-> f3, hh |-> hh]

\* the formats parse_date_string tries, in its order
DateFormats == << "%Y-%d-%m %H:%M:%S", "%Y-%m-%d %H:%M:%S",
                  "%Y-%m-%dT%H:%M:%S", "%Y-%m-%d" >>

\* datetime.strptime(date_str, fmt): None stands for the ValueError
Strptime(s, fmt) ==
    LET daymonth == fmt = "%Y-%d-%m %H:%M:%S"
        shape == IF fmt = "%Y-%m-%dT%H:%M:%S" THEN "T"
                 ELSE IF fmt = "%Y-%m-%d" THEN "date" ELSE "space"
        month == IF daymonth THEN s.f3 ELSE s.f2
        day   == IF daymonth THEN s.f2 ELSE s.f3
    IN IF /\ s.shape = shape
          /\ ValidDate(month, day)
          /\ s.hh \in 0..23
          /\ (shape = "date" => s.hh = 0)
       THEN Some(ToHours(month, day, s.hh))
       ELSE None

RECURSIVE TryFormats(_, _)
TryFormats(s, fmts) ==
    IF fmts = <<>> THEN None
    ELSE IF ~IsNone(Strptime(s, Head(fmts))) THEN Strptime(s, Head(fmts))
    ELSE TryFormats(s, Tail(fmts))

\* a parser that falls back to the first hour of 2024 instead of None
ParseOrEpoch(date_str) ==
    IF IsNone(TryFormats(date_str, DateFormats)) THEN Some(0)
    ELSE TryFormats(date_str, DateFormats)

parse_date_string(date_str) == TryFormats(date_str, DateFormats)

\* ------------------------------------------------------------------------
\* Small helpers of the server
\* ------------------------------------------------------------------------

\* the list `tables` of preload_all_data
AllTables == << "brain_rates_eur_usd", "brain_rates_eur_usd_day",
                "brain_rates_btc_usd", "brain_rates_btc_usd_day",
                "brain_rates_eth_usd", "brain_rates_eth_usd_day" >>

\* the loop over the tables does the same for every table: the model runs
\* it over the first NumTables tables of the list
NumTables == 2

Tables == SubSeq(AllTables, 1, NumTables)

get_rates_table_name(pair_id, day_flag) ==
    LET suffix == IF day_flag = 1 THEN "_day" ELSE ""
        base == IF pair_id = 3 THEN "brain_rates_btc_usd"
                ELSE IF pair_id = 4 THEN "brain_rates_eth_usd"
                ELSE "brain_rates_eur_usd"
    IN base \o suffix

get_modification_factor(pair_id) ==
    IF pair_id = 1 THEN Num(1, -3)
    ELSE IF pair_id = 3 THEN Num(1, 3)
    ELSE IF pair_id = 4 THEN Num(1, 2)
    ELSE Num(1, 0)

THRESHOLD == Num(1, -4)

RECURRING_MIN_COUNT == 2

WINDOW == 12

\* _direction(a, b, beat_label, miss_label, inline_label) on optional floats
Direction(a, b, beat_label, miss_label, inline_label) ==
    IF IsNone(a) \/ IsNone(b) THEN "UNKNOWN"
    ELSE IF NumLt(NumAdd(Val(b), THRESHOLD), Val(a)) THEN beat_label
    ELSE IF NumLt(Val(a), NumSub(Val(b), THRESHOLD)) THEN miss_label
    ELSE inline_label

\* (forecast_direction, surprise_direction, actual_direction)
resolve_event_context(actual, forecast, previous) ==
    << Direction(forecast, previous, "UP", "DOWN", "FLAT"),
       Direction(actual, forecast, "BEAT", "MISS", "INLINE"),
       Direction(actual, previous, "UP", "DOWN", "FLAT") >>

\* f"{event_id}__{fdir}__{sdir}__{adir}__{mode}" and "__{hour}" when given
build_weight_code(event_id, fdir, sdir, adir, mode, hour) ==
    LET base == ToString(event_id) \o "__" \o fdir \o "__" \o sdir \o "__"
                \o adir \o "__" \o ToString(mode)
    IN IF IsNone(hour) THEN base ELSE base \o "__" \o ToString(Val(hour))

\* bisect.bisect_left on a sorted list of timestamps; the result counts from 0
RECURSIVE BisectLoop(_, _, _, _)
BisectLoop(a, x, lo, hi) ==
    IF lo >= hi THEN lo
    ELSE LET mid == (lo + hi) \div 2
         IN IF a[mid + 1] < x THEN BisectLoop(a, x, mid + 1, hi)
            ELSE BisectLoop(a, x, lo, mid)

bisect_left(a, x) == BisectLoop(a, x, 0, Len(a))

\* Python's order on (date, is_bull) tuples, False < True
CandleLt(c, x) == \/ c[1] < x[1]
                  \/ (c[1] = x[1] /\ ~c[2] /\ x[2])

RECURSIVE BisectCandles(_, _, _, _)
BisectCandles(a, x, lo, hi) ==
    IF lo >= hi THEN lo
    ELSE LET mid == (lo + hi) \div 2
         IN IF CandleLt(a[mid + 1], x) THEN BisectCandles(a, x, mid + 1, hi)
            ELSE BisectCandles(a, x, lo, mid)

\* the last candle up to target_date, a candle at target_date included
CandleUpToTarget(G, table, target_date) ==
    LET candles == Get(G.GLOBAL_LAST_CANDLES, table, <<>>)
        upto == {i \in 1..Len(candles) : candles[i][1] <= target_date}
    IN IF upto = {} THEN None
       ELSE Some(candles[CHOOSE i \in upto : \A j \in upto : j <= i])

\* the last candle before target_date of a table of the snapshot G, or None
find_prev_candle_trend(G, table, target_date) ==
    LET candles == Get(G.GLOBAL_LAST_CANDLES, table, <<>>)
        idx == BisectCandles(candles, <<target_date, FALSE>>, 0, Len(candles))
    IN IF candles = <<>> THEN None
       ELSE IF idx > 0 THEN Some(candles[idx]) ELSE None

UnknownContext == <<"UNKNOWN", "UNKNOWN", "UNKNOWN">>

\* the context of the first calendar entry of event_id at history[i], going
\* back from i; UNKNOWN when no entry is found
RECURSIVE ContextBackFrom(_, _, _, _)
ContextBackFrom(G, event_id, history, i) ==
    IF i < 1 THEN UnknownContext
    ELSE LET evs == SelectSeq(Get(G.GLOBAL_CALENDAR, history[i], <<>>),
                              LAMBDA ev : ev.EventId = event_id)
         IN IF evs # <<>>
            THEN resolve_event_context(evs[1].actual, evs[1].forecast,
                                       evs[1].previous)
            ELSE ContextBackFrom(G, event_id, history, i - 1)

get_last_known_context(G, event_id, before_date) ==
    LET history == Get(G.GLOBAL_HISTORY, event_id, <<>>)
        idx == bisect_left(history, before_date)
    IN IF idx = 0 THEN UnknownContext
       ELSE ContextBackFrom(G, event_id, history, idx)

\* ------------------------------------------------------------------------
\* preload_all_data: what each load turns the fetched rows into
\* ------------------------------------------------------------------------

\* sorted(rows, key=date) of a table whose dates are unique
RECURSIVE SortByDate(_)
SortByDate(rows) ==
    IF rows = {} THEN <<>>
    ELSE LET first == CHOOSE r \in rows : \A q \in rows : r.date <= q.date
         IN <<first>> \o SortByDate(rows \ {first})

\* list.sort() of a list of timestamps
RECURSIVE Insert(_, _)
Insert(sorted, x) ==
    IF sorted = <<>> THEN <<x>>
    ELSE IF x < Head(sorted) THEN <<x>> \o sorted
    ELSE <<Head(sorted)>> \o Insert(Tail(sorted), x)

RECURSIVE SortTimes(_)
SortTimes(s) == IF s = <<>> THEN <<>> ELSE Insert(SortTimes(Tail(s)), Head(s))

\* [r["weight_code"] for r in rows]
LoadWeightCodes(rows) == [i \in 1..Len(rows) |-> rows[i].weight_code]

\* `x or 0` of an optional count
OrZero(o) == IF IsNone(o) THEN 0 ELSE Val(o)

\* `float(x or 0)` of an optional float
FloatOrZero(o) == IF IsNone(o) THEN Zero ELSE Val(o)

RECURSIVE LoadCtxIndex(_)
LoadCtxIndex(rows) ==
    IF rows = <<>> THEN EmptyDict
    ELSE LET r == rows[Len(rows)]
             key == <<r.event_id, r.forecast_direction, r.surprise_direction,
                      r.actual_direction>>
         IN Put(LoadCtxIndex(SubSeq(rows, 1, Len(rows) - 1)), key,
                [occurrence_count |-> OrZero(r.occurrence_count),
                 importance |-> r.importance,
                 currency |-> r.currency])

CalendarEntry(r) ==
    [EventId |-> r.event_id, Importance |-> r.importance,
     event_date |-> r.occurrence_time_utc,
     actual |-> r.actual, forecast |-> r.forecast, previous |-> r.previous]

RECURSIVE LoadCalendar(_)
LoadCalendar(rows) ==
    IF rows = <<>> THEN EmptyDict
    ELSE LET r == rows[Len(rows)]
             before == LoadCalendar(SubSeq(rows, 1, Len(rows) - 1))
             dt == r.occurrence_time_utc
         IN Put(before, dt, Append(Get(before, dt, <<>>), CalendarEntry(r)))

RECURSIVE AppendHistory(_)
AppendHistory(rows) ==
    IF rows = <<>> THEN EmptyDict
    ELSE LET r == rows[Len(rows)]
             before == AppendHistory(SubSeq(rows, 1, Len(rows) - 1))
         IN Put(before, r.event_id,
                Append(Get(before, r.event_id, <<>>), r.occurrence_time_utc))

LoadHistory(rows) ==
    LET appended == AppendHistory(rows)
    IN [eid \in DOMAIN appended |-> SortTimes(appended[eid])]

\* {date: float(t1)} over the rows whose t1 is not NULL
LoadRates(rows) ==
    LET with_t1 == {r \in rows : ~IsNone(r.t1)}
    IN [dt \in {r.date : r \in with_t1} |->
            Val((CHOOSE r \in with_t1 : r.date = dt).t1)]

LoadLastCandles(rows) ==
    LET sorted == SortByDate(rows)
    IN [i \in 1..Len(sorted) |-> <<sorted[i].date, sorted[i].close > sorted[i].open>>]

CandleRange(r) == NumSub(FloatOrZero(r.max), FloatOrZero(r.min))

LoadCandleRanges(rows) ==
    [dt \in {r.date : r \in rows} |-> CandleRange(CHOOSE r \in rows : r.date = dt)]

LoadAvgRange(rows) ==
    LET sorted == SortByDate(rows)
        ranges == [i \in 1..Len(sorted) |-> CandleRange(sorted[i])]
    IN IF ranges = <<>> THEN Zero ELSE NumDivInt(NumSum(ranges), Len(ranges))

\* the interval of the JOINs of the extremum query, in hours
ExtremumInterval(table) == 1

\* `a.col > b.col` (max) or `a.col < b.col` (min) in SQL: never true on a NULL
ColBeats(typ, a, b) ==
    LET x == IF typ = "max" THEN a.max ELSE a.min
        y == IF typ = "max" THEN b.max ELSE b.min
    IN /\ ~IsNone(x)
       /\ ~IsNone(y)
       /\ IF typ = "max" THEN NumLt(Val(y), Val(x)) ELSE NumLt(Val(x), Val(y))

\* the dates the extremum query of a table selects
LoadExtremums(table, rows, typ) ==
    {r.date : r \in
        {t1 \in rows :
            \E t_prev \in rows, t_next \in rows :
                /\ t_prev.date = t1.date - ExtremumInterval(table)
                /\ t_next.date = t1.date + ExtremumInterval(table)
                /\ ColBeats(typ, t1, t_prev)
                /\ ColBeats(typ, t1, t_next)}}

EmptyExtremums == [min |-> {}, max |-> {}]

\* ------------------------------------------------------------------------
\* The query: calculate_pure_memory on a snapshot G of the module's caches
\* ------------------------------------------------------------------------

NeedFilter(calc_var) == calc_var \in {1, 3, 4}

\* a table in which only variant 2 is squared-signed
SquareOnlyUnfiltered(calc_var) == calc_var = 2

UseSquare(calc_var) == calc_var \in {2, 3}

UseRange(calc_var) == calc_var = 4

\* what one shifted date adds to the total of compute_t1_value
T1Term(d, calc_var, ram_rates, candle_ranges, avg_range) ==
    LET rng == Get(candle_ranges, d, Zero)
        t1 == Get(ram_rates, d, Zero)
    IN IF NeedFilter(calc_var) /\ NumLe(rng, avg_range) THEN Zero
       ELSE IF UseRange(calc_var) THEN NumSub(rng, avg_range)
       ELSE IF UseSquare(calc_var) THEN NumMul(t1, NumAbs(t1))
       ELSE t1

compute_t1_value(t_dates, calc_var, ram_rates, candle_ranges, avg_range) ==
    NumSum([i \in 1..Len(t_dates) |->
                T1Term(t_dates[i], calc_var, ram_rates, candle_ranges, avg_range)])

\* an extremum value that is the share of matches times the factor, not
\* centred on zero
ExtremumShare(t_dates, calc_var, ext_set, candle_ranges, avg_range, modification, total_hist) ==
    LET matches == Len(SelectSeq(t_dates, LAMBDA d : d \in ext_set))
    IN IF t_dates = <<>> \/ total_hist = 0 \/ matches = 0 THEN None
       ELSE Some(NumMul(Norm(matches, total_hist, 0), modification))

\* an optional float: None where the code returns None
compute_extremum_value(t_dates, calc_var, ext_set, candle_ranges, avg_range, modification, total_hist) ==
    LET pool == IF NeedFilter(calc_var)
                THEN SelectSeq(t_dates,
                               LAMBDA d : NumLt(avg_range, Get(candle_ranges, d, Zero)))
                ELSE t_dates
        hits == SelectSeq(pool, LAMBDA d : d \in ext_set)
        range_val == NumSum([i \in 1..Len(hits) |->
                                NumSub(Get(candle_ranges, hits[i], Zero), avg_range)])
        matches == Len(hits)
        val == NumMul(Norm(2 * matches - total_hist, total_hist, 0), modification)
    IN IF pool = <<>> THEN None
       ELSE IF UseRange(calc_var)
            THEN (IF NumIsZero(range_val) THEN None ELSE Some(range_val))
       ELSE IF total_hist = 0 THEN None
       ELSE IF NumIsZero(val) THEN None ELSE Some(val)

\* timedelta(hours=1) when day == 0, else timedelta(days=1), in hours
Unit(day) == IF day = 0 THEN 1 ELSE HoursPerDay

CheckDates(target_date, day) ==
    [i \in 1..(2 * WINDOW + 1) |-> target_date + (i - WINDOW - 1) * Unit(day)]

\* a collection that also takes the entries of the hour before each check date
RECURSIVE EventsWithHourBefore(_, _, _)
EventsWithHourBefore(G, dates, target_date) ==
    IF dates = <<>> THEN <<>>
    ELSE SelectSeq(Get(G.GLOBAL_CALENDAR, Head(dates) - 1, <<>>)
                   \o Get(G.GLOBAL_CALENDAR, Head(dates), <<>>),
                   LAMBDA e : e.Importance # 1 \/ Head(dates) = target_date)
         \o EventsWithHourBefore(G, Tail(dates), target_date)

\* the calendar entries of the check dates, low importance only at the target
RECURSIVE EventsInWindow(_, _, _)
EventsInWindow(G, dates, target_date) ==
    IF dates = <<>> THEN <<>>
    ELSE SelectSeq(Get(G.GLOBAL_CALENDAR, Head(dates), <<>>),
                   LAMBDA e : e.Importance # 1 \/ Head(dates) = target_date)
         \o EventsInWindow(G, Tail(dates), target_date)

\* int(diff.total_seconds() / 3600) when day == 0, else diff.days
ShiftOf(target_date, event_date, day) ==
    IF day = 0 THEN target_date - event_date
    ELSE (target_date - event_date) \div HoursPerDay

\* a filter that lets the occurrence at the target itself through
ValidDatesUpToTarget(G, eid, target_date) ==
    SelectSeq(Get(G.GLOBAL_HISTORY, eid, <<>>), LAMBDA d : d <= target_date)

\* [d for d in GLOBAL_HISTORY.get(eid, []) if d < target_date]
ValidDates(G, eid, target_date) ==
    SelectSeq(Get(G.GLOBAL_HISTORY, eid, <<>>), LAMBDA d : d < target_date)

\* a filter that takes every shift inside the window, recurring or not
ShiftInWindow(is_recurring, shift) == Abs(shift) <= WINDOW

\* a non-recurring event only at shift 0, a recurring one inside the window
ShiftAccepted(is_recurring, shift) ==
    /\ ~(~is_recurring /\ shift # 0)
    /\ ~(is_recurring /\ Abs(shift) > WINDOW)

IsRecurring(ctx_info) == ctx_info.occurrence_count >= RECURRING_MIN_COUNT

\* hour_arg = shift if is_recurring else None
HourArg(is_recurring, shift) == IF is_recurring THEN Some(shift) ELSE None

\* What one event of the window adds to `result`: a list of at most two
\* additions (mode 0, then mode 1), each with the dates it was computed from.
EventEmissions(G, e, pair, day, target_date, calc_type, calc_var) ==
    LET rates_table == get_rates_table_name(pair, day)
        modification == get_modification_factor(pair)
        ram_rates == Get(G.GLOBAL_RATES, rates_table, EmptyDict)
        ram_ranges == Get(G.GLOBAL_CANDLE_RANGES, rates_table, EmptyDict)
        avg_range == Get(G.GLOBAL_AVG_RANGE, rates_table, Zero)
        ram_ext == Get(G.GLOBAL_EXTREMUMS, rates_table, EmptyExtremums)
        prev_candle == find_prev_candle_trend(G, rates_table, target_date)
        shift == ShiftOf(target_date, e.event_date, day)
        eid == e.EventId
        ctx == get_last_known_context(G, eid, target_date)
        ctx_key == <<eid, ctx[1], ctx[2], ctx[3]>>
        known == ctx_key \in DOMAIN G.GLOBAL_CTX_INDEX
        is_recurring == IsRecurring(G.GLOBAL_CTX_INDEX[ctx_key])
        valid_dates == ValidDates(G, eid, target_date)
        t_dates == [i \in 1..Len(valid_dates) |-> valid_dates[i] + shift * Unit(day)]
        hour_arg == HourArg(is_recurring, shift)
        made(mode, value) ==
            [code |-> build_weight_code(eid, ctx[1], ctx[2], ctx[3], mode, hour_arg),
             mode |-> mode, value |-> value, event_id |-> eid, context |-> ctx,
             recurring |-> is_recurring, shift |-> shift,
             event_date |-> e.event_date,
             valid_dates |-> valid_dates, t_dates |-> t_dates]
        ext_set == IF Val(prev_candle)[2] THEN ram_ext.max ELSE ram_ext.min
        ext_val == compute_extremum_value(t_dates, calc_var, ext_set, ram_ranges,
                                          avg_range, modification, Len(valid_dates))
    IN IF ~known THEN <<>>
       ELSE IF ~ShiftAccepted(is_recurring, shift) THEN <<>>
       ELSE IF valid_dates = <<>> THEN <<>>
       ELSE (IF calc_type \in {0, 1}
             THEN <<made(0, compute_t1_value(t_dates, calc_var, ram_rates,
                                             ram_ranges, avg_range))>>
             ELSE <<>>)
            \o
            (IF calc_type \in {0, 2} /\ ~IsNone(prev_candle) /\ ~IsNone(ext_val)
             THEN <<made(1, Val(ext_val))>>
             ELSE <<>>)

RECURSIVE Emissions(_, _, _, _, _, _, _)
Emissions(G, events, pair, day, target_date, calc_type, calc_var) ==
    IF events = <<>> THEN <<>>
    ELSE EventEmissions(G, Head(events), pair, day, target_date, calc_type, calc_var)
         \o Emissions(G, Tail(events), pair, day, target_date, calc_type, calc_var)

\* result[wc] = result.get(wc, 0.0) + value, for every addition in order
RECURSIVE Accumulate(_)
Accumulate(emissions) ==
    IF emissions = <<>> THEN EmptyDict
    ELSE LET last == emissions[Len(emissions)]
             before == Accumulate(SubSeq(emissions, 1, Len(emissions) - 1))
         IN Put(before, last.code, NumAdd(Get(before, last.code, Zero), last.value))

\* {k: round(v, 6) for k, v in result.items() if v != 0}
Finalize(result) ==
    [k \in {c \in DOMAIN result : ~NumIsZero(result[c])} |-> Round6(result[k])]

ErrorResult == [k \in {"error"} |-> "Invalid date format"]

\* the additions a query makes to `result` (empty when the date is invalid)
QueryEmissions(G, pair, day, date_str, calc_type, calc_var) ==
    LET target_date == parse_date_string(date_str)
    IN IF IsNone(target_date) THEN <<>>
       ELSE Emissions(G,
                      EventsInWindow(G, CheckDates(Val(target_date), day),
                                     Val(target_date)),
                      pair, day, Val(target_date), calc_type, calc_var)

calculate_pure_memory(G, pair, day, date_str, calc_type, calc_var) ==
    LET target_date == parse_date_string(date_str)
    IN IF IsNone(target_date) THEN ErrorResult
       ELSE IF EventsInWindow(G, CheckDates(Val(target_date), day),
                              Val(target_date)) = <<>>
            THEN EmptyDict
       ELSE Finalize(Accumulate(
                QueryEmissions(G, pair, day, date_str, calc_type, calc_var)))

\* ------------------------------------------------------------------------
\* The content of the databases, version by version
\* ------------------------------------------------------------------------

\* the target of the requests below: 2024-01-13 10:00:00
T0 == ToHours(1, 13, 10)

CalRow(event_id, time, importance, actual, forecast, previous) ==
    [event_id |-> event_id, occurrence_time_utc |-> time,
     importance |-> importance,
     actual |-> actual, forecast |-> forecast, previous |-> previous]

CtxRow(event_id, fdir, sdir, adir, occurrence_count) ==
    [event_id |-> event_id, forecast_direction |-> fdir,
     surprise_direction |-> sdir, actual_direction |-> adir,
     occurrence_count |-> occurrence_count, importance |-> 2,
     currency |-> "EUR"]

RateRow(date, open, close, max, min, t1) ==
    [date |-> date, open |-> open, close |-> close,
     max |-> max, min |-> min, t1 |-> t1]

\* vlad_investing_calendar: event 1 comes back again and again, event 2 has
\* one release before T0 and one at T0, event 3 is of low importance
CalendarRows(v) ==
    << CalRow(1, T0 - 24, 2, Some(Num(15, -1)), Some(Num(10, -1)), Some(Num(10, -1))),
       CalRow(1, T0 - 48, 2, Some(Num(15, -1)), Some(Num(10, -1)), Some(Num(10, -1))),
       CalRow(1, T0 - 1, 2, Some(Num(15, -1)), Some(Num(10, -1)), Some(Num(10, -1))),
       CalRow(2, T0 - 8, 3, None, Some(Num(10, -1)), Some(Num(20, -1))),
       CalRow(2, T0, 3, None, None, None),
       CalRow(1, T0 + 2, 2, None, Some(Num(10, -1)), Some(Num(15, -1))),
       CalRow(3, T0 - 2, 1, None, None, None),
       CalRow(3, T0, 1, None, None, None) >>
    \o (IF v >= 2
        THEN << CalRow(2, T0 - 10, 3, None, Some(Num(10, -1)), Some(Num(20, -1))),
                CalRow(1, T0 - 45, 2, Some(Num(5, -1)), Some(Num(10, -1)), Some(Num(10, -1))) >>
        ELSE << >>)

\* vlad_investing_event_context_idx: the context of event 2 has been seen
\* once in version 1 and v times in version v
CtxRows(v) ==
    << CtxRow(1, "FLAT", "BEAT", "UP", Some(v + 2)),
       CtxRow(2, "DOWN", "UNKNOWN", "UNKNOWN", Some(v)),
       CtxRow(3, "UNKNOWN", "UNKNOWN", "UNKNOWN", None) >>
    \o (IF v >= 2 THEN << CtxRow(1, "FLAT", "MISS", "DOWN", Some(1)) >> ELSE << >>)

\* vlad_investing_weights
WeightRows(v) ==
    << [weight_code |-> "1__FLAT__BEAT__UP__0"],
       [weight_code |-> "1__FLAT__BEAT__UP__1"],
       [weight_code |-> "2__DOWN__UNKNOWN__UNKNOWN__0"] >>
    \o [i \in 1..(v - 1) |->
            [weight_code |-> "2__DOWN__UNKNOWN__UNKNOWN__0__" \o ToString(i)]]

Price(pips) == Some(Num(pips, -4))

\* the candles of a table; t1 is v times a few ten-millionths, and the
\* candle of brain_rates_btc_usd at T0 - 23 is deleted after version 1
RateRows(table, v) ==
    IF table = "brain_rates_eur_usd"
    THEN { RateRow(T0 - 48, 10, 12, Price(11010), Price(11000), Some(Num(25 * v, -7))),
           RateRow(T0 - 47, 12, 15, Price(11040), Price(11005), Some(Num(-3 * v, -7))),
           RateRow(T0 - 46, 15, 11, Price(11020), Price(11000), None),
           RateRow(T0 - 23, 11, 10, Price(11012), Price(11002), Some(Num(3 * v, -7))),
           RateRow(T0 - 9, 10, 10, Price(11000), Price(11000), None),
           RateRow(T0 - 8, 10, 10, Price(11001), None, Some(Num(4 * v, -7))),
           RateRow(T0 - 7, 10, 10, Price(11000), Price(11000), None),
           RateRow(T0 - 2, 10, 9, None, None, Some(Num(-16 * v, -7))),
           RateRow(T0 - 1, 9, 13, Price(11030), Price(11000), Some(Num(7 * v, -7))),
           RateRow(T0, 13, 14, Price(11050), Price(11020), Some(Num(v, -6))) }
    ELSE IF table = "brain_rates_eur_usd_day"
    THEN { RateRow(T0 - 24, 10, 12, Price(11010), Price(11000), Some(Num(5 * v, -7))),
           RateRow(T0, 12, 15, Price(11040), Price(11005), Some(Num(-5 * v, -7))),
           RateRow(T0 + 24, 15, 11, Price(11020), Price(11000), Some(Num(9 * v, -7))) }
    ELSE IF table = "brain_rates_btc_usd"
    THEN { RateRow(T0 - 8, 400, 410, Price(420), Price(390), Some(Num(4 * v, -7))),
           RateRow(T0 - 1, 410, 405, Price(415), Price(400), Some(Num(-2 * v, -7))) }
         \cup (IF v = 1
               THEN { RateRow(T0 - 23, 400, 420, Price(425), Price(395), Some(Num(6, -7))) }
               ELSE {})
    ELSE {}

TableSet == Range(AllTables)

\* the caches once preload_all_data has run to its end on version v
BuildSnapshot(v) ==
    [GLOBAL_WEIGHT_CODES |-> LoadWeightCodes(WeightRows(v)),
     GLOBAL_CTX_INDEX |-> LoadCtxIndex(CtxRows(v)),
     GLOBAL_CALENDAR |-> LoadCalendar(CalendarRows(v)),
     GLOBAL_HISTORY |-> LoadHistory(CalendarRows(v)),
     GLOBAL_RATES |-> [t \in TableSet |-> LoadRates(RateRows(t, v))],
     GLOBAL_LAST_CANDLES |-> [t \in TableSet |-> LoadLastCandles(RateRows(t, v))],
     GLOBAL_CANDLE_RANGES |-> [t \in TableSet |-> LoadCandleRanges(RateRows(t, v))],
     GLOBAL_AVG_RANGE |-> [t \in TableSet |-> LoadAvgRange(RateRows(t, v))],
     GLOBAL_EXTREMUMS |-> [t \in TableSet |->
                              [min |-> LoadExtremums(t, RateRows(t, v), "min"),
                               max |-> LoadExtremums(t, RateRows(t, v), "max")]]]

\* ------------------------------------------------------------------------
\* The server: its caches, the sections a build writes, the handlers
\* ------------------------------------------------------------------------

\* the caches a request reads, as one record
Snapshot ==
    [GLOBAL_WEIGHT_CODES |-> GLOBAL_WEIGHT_CODES,
     GLOBAL_CTX_INDEX |-> GLOBAL_CTX_INDEX,
     GLOBAL_CALENDAR |-> GLOBAL_CALENDAR,
     GLOBAL_HISTORY |-> GLOBAL_HISTORY,
     GLOBAL_RATES |-> GLOBAL_RATES,
     GLOBAL_LAST_CANDLES |-> GLOBAL_LAST_CANDLES,
     GLOBAL_CANDLE_RANGES |-> GLOBAL_CANDLE_RANGES,
     GLOBAL_AVG_RANGE |-> GLOBAL_AVG_RANGE,
     GLOBAL_EXTREMUMS |-> GLOBAL_EXTREMUMS]

caches == << GLOBAL_WEIGHT_CODES, GLOBAL_CTX_INDEX, GLOBAL_CALENDAR,
             GLOBAL_HISTORY, GLOBAL_RATES, GLOBAL_LAST_CANDLES,
             GLOBAL_CANDLE_RANGES, GLOBAL_AVG_RANGE, GLOBAL_EXTREMUMS >>

\* The sections preload_all_data writes, each in one piece between two
\* awaits.  GLOBAL_HISTORY is written with GLOBAL_CALENDAR; the price series,
\* candle list, candle ranges and average range of a table are written
\* together and go by the table's name; its two extremum sets are written
\* one after the other.
MinOf(table) == table \o ".min"

MaxOf(table) == table \o ".max"

TableSections(table) == {table, MinOf(table), MaxOf(table)}

Sections ==
    {"GLOBAL_WEIGHT_CODES", "GLOBAL_CTX_INDEX", "GLOBAL_CALENDAR"}
    \cup UNION {TableSections(t) : t \in Range(Tables)}

\* the sections calculate_pure_memory reads for a request
SectionsRead(G, pair, day, date_str, calc_type, calc_var) ==
    LET target_date == parse_date_string(date_str)
    IN IF IsNone(target_date) THEN {}
       ELSE IF EventsInWindow(G, CheckDates(Val(target_date), day),
                              Val(target_date)) = <<>>
            THEN {"GLOBAL_CALENDAR"}
       ELSE {"GLOBAL_CALENDAR", "GLOBAL_CTX_INDEX"}
            \cup TableSections(get_rates_table_name(pair, day))

Params(pair, day, date, type, var) ==
    [pair |-> pair, day |-> day, date |-> date, type |-> type, var |-> var]

\* the lifespan handler has yielded and has not been resumed: requests run
AcceptsRequests == lifespan_pc = "serving"

\* a reload of background_reload_data is between two of its awaits
Reloading == task_pc = "reload"

\* a handler that keeps its last answer and gives it again to the next
\* request for the same pair and date
ValuesResponseKept(p) ==
    IF /\ ~IsNone(response)
       /\ Val(response).kind = "values"
       /\ Val(response).params.pair = p.pair
       /\ Val(response).params.date = p.date
    THEN [Val(response) EXCEPT !.params = p]
    ELSE [kind |-> "values",
          params |-> p,
          body |-> calculate_pure_memory(Snapshot, p.pair, p.day, p.date,
                                         p.type, p.var),
          reads |-> SectionsRead(Snapshot, p.pair, p.day, p.date, p.type, p.var),
          seen |-> tags,
          reloading |-> Reloading,
          last_reload |-> LAST_RELOAD_TIME]

\* a handler suspended between its reads: it has the calendar and the
\* context index of the moment the reload started, and the rest of the
\* caches as they are when it resumes
ValuesResponseSuspended(p) ==
    LET G == IF IsNone(started_from) \/ ~Reloading THEN Snapshot
             ELSE [Snapshot EXCEPT
                      !.GLOBAL_CALENDAR = Val(started_from).GLOBAL_CALENDAR,
                      !.GLOBAL_HISTORY = Val(started_from).GLOBAL_HISTORY,
                      !.GLOBAL_CTX_INDEX = Val(started_from).GLOBAL_CTX_INDEX]
    IN [kind |-> "values",
        params |-> p,
        body |-> calculate_pure_memory(G, p.pair, p.day, p.date, p.type, p.var),
        reads |-> SectionsRead(G, p.pair, p.day, p.date, p.type, p.var),
        seen |-> tags,
        reloading |-> Reloading,
        last_reload |-> LAST_RELOAD_TIME]

\* what get_values returns, with what the handler saw while it ran
ValuesResponse(p) ==
    [kind |-> "values",
     params |-> p,
     body |-> calculate_pure_memory(Snapshot, p.pair, p.day, p.date, p.type, p.var),
     reads |-> SectionsRead(Snapshot, p.pair, p.day, p.date, p.type, p.var),
     seen |-> tags,
     reloading |-> Reloading,
     last_reload |-> LAST_RELOAD_TIME]

NoParams == Params(0, 0, DateStr("junk", 0, 0, 0), 0, 0)

\* what get_weights returns
WeightsResponse ==
    [kind |-> "weights",
     params |-> NoParams,
     body |-> [weights |-> GLOBAL_WEIGHT_CODES, total |-> Len(GLOBAL_WEIGHT_CODES)],
     reads |-> {"GLOBAL_WEIGHT_CODES"},
     seen |-> tags,
     reloading |-> Reloading,
     last_reload |-> LAST_RELOAD_TIME]

\* ------------------------------------------------------------------------
\* preload_all_data, one action for each await it is suspended at
\* ------------------------------------------------------------------------

Idle == [step |-> "idle", i |-> 0]

At(step, i) == [step |-> step, i |-> i]

\* the tags once the sections S have got the tag `tag`
Tagged(tg, S, tag) == [s \in Sections |-> IF s \in S THEN tag ELSE tg[s]]

\* the tags once the build has returned: every section is of that build
Published(tg) == [s \in Sections |-> "published"]

\* the tags once the build has been given up: what it wrote stays as it is
Abandoned(tg) == [s \in Sections |-> IF tg[s] = "new" THEN "failed" ELSE tg[s]]

Now == Some("now")

\* the largest content version of the databases
MaxDbVersion == 2

\* what the loads of preload_all_data make of each version of the content
Loaded == [v \in 1..MaxDbVersion |-> BuildSnapshot(v)]

\* another process changes the databases, between two builds
DbUpdate ==
    /\ db < MaxDbVersion
    /\ preload_pc = Idle
    /\ db' = db + 1
    /\ response' = None
    /\ UNCHANGED << caches, LAST_RELOAD_TIME, lifespan_pc, task_pc, preload_pc,
                    asked, tags, started_from, outcome, failures, traced, codec, beside >>

\* a lifespan handler that creates the background task before it awaits
\* the first build
LifespanTaskFirst ==
    /\ lifespan_pc = "created"
    /\ lifespan_pc' = "startup"
    /\ task_pc' = "sleep"
    /\ preload_pc' = At("connect_vlad", 0)
    /\ response' = None
    /\ UNCHANGED << db, caches, LAST_RELOAD_TIME, asked, tags,
                    started_from, outcome, failures, traced, codec, beside >>

\* lifespan: `await preload_all_data()` runs up to the first await
LifespanEnter ==
    /\ lifespan_pc = "created"
    /\ lifespan_pc' = "startup"
    /\ preload_pc' = At("connect_vlad", 0)
    /\ response' = None
    /\ UNCHANGED << db, caches, LAST_RELOAD_TIME, task_pc, asked, tags,
                    started_from, outcome, failures, traced, codec, beside >>

\* `async with engine_vlad.connect()` has connected
AwaitConnectVlad ==
    /\ preload_pc.step = "connect_vlad"
    /\ preload_pc' = At("weight_codes", 0)
    /\ response' = None
    /\ UNCHANGED << db, caches, LAST_RELOAD_TIME, lifespan_pc, task_pc, asked,
                    tags, started_from, outcome, failures, traced, codec, beside >>

\* the weight codes have arrived: GLOBAL_WEIGHT_CODES[:] = ...
AwaitWeightCodes ==
    /\ preload_pc.step = "weight_codes"
    /\ GLOBAL_WEIGHT_CODES' = Loaded[db].GLOBAL_WEIGHT_CODES
    /\ tags' = Tagged(tags, {"GLOBAL_WEIGHT_CODES"}, "new")
    /\ preload_pc' = At("ctx_index", 0)
    /\ response' = None
    /\ UNCHANGED << db, GLOBAL_CTX_INDEX, GLOBAL_CALENDAR, GLOBAL_HISTORY,
                    GLOBAL_RATES, GLOBAL_LAST_CANDLES, GLOBAL_CANDLE_RANGES,
                    GLOBAL_AVG_RANGE, GLOBAL_EXTREMUMS, LAST_RELOAD_TIME,
                    lifespan_pc, task_pc, asked, started_from, outcome, failures, traced,
                    codec, beside >>

\* the context index has arrived: clear() and refill
AwaitCtxIndex ==
    /\ preload_pc.step = "ctx_index"
    /\ GLOBAL_CTX_INDEX' = Loaded[db].GLOBAL_CTX_INDEX
    /\ tags' = Tagged(tags, {"GLOBAL_CTX_INDEX"}, "new")
    /\ preload_pc' = At("calendar", 0)
    /\ response' = None
    /\ UNCHANGED << db, GLOBAL_WEIGHT_CODES, GLOBAL_CALENDAR, GLOBAL_HISTORY,
                    GLOBAL_RATES, GLOBAL_LAST_CANDLES, GLOBAL_CANDLE_RANGES,
                    GLOBAL_AVG_RANGE, GLOBAL_EXTREMUMS, LAST_RELOAD_TIME,
                    lifespan_pc, task_pc, asked, started_from, outcome, failures, traced,
                    codec, beside >>

\* The calendar has arrived: calendar and history are cleared, refilled and
\* sorted; then the loop over the tables empties the caches of the first
\* table and waits for the connection to brain.  (Leaving an `async with`
\* is taken together with the code that follows it.)
AwaitCalendar ==
    /\ preload_pc.step = "calendar"
    /\ GLOBAL_CALENDAR' = Loaded[db].GLOBAL_CALENDAR
    /\ GLOBAL_HISTORY' = Loaded[db].GLOBAL_HISTORY
    /\ GLOBAL_RATES' = Put(GLOBAL_RATES, Tables[1], EmptyDict)
    /\ GLOBAL_LAST_CANDLES' = Put(GLOBAL_LAST_CANDLES, Tables[1], <<>>)
    /\ GLOBAL_CANDLE_RANGES' = Put(GLOBAL_CANDLE_RANGES, Tables[1], EmptyDict)
    /\ GLOBAL_AVG_RANGE' = Put(GLOBAL_AVG_RANGE, Tables[1], Zero)
    /\ GLOBAL_EXTREMUMS' = Put(GLOBAL_EXTREMUMS, Tables[1], EmptyExtremums)
    /\ tags' = Tagged(Tagged(tags, {"GLOBAL_CALENDAR"}, "new"),
                      TableSections(Tables[1]), "cleared")
    /\ preload_pc' = At("connect_brain", 1)
    /\ response' = None
    /\ UNCHANGED << db, GLOBAL_WEIGHT_CODES, GLOBAL_CTX_INDEX, LAST_RELOAD_TIME,
                    lifespan_pc, task_pc, asked, started_from, outcome, failures, traced,
                    codec, beside >>

\* `async with engine_brain.connect()` has connected
AwaitConnectBrain ==
    /\ preload_pc.step = "connect_brain"
    /\ preload_pc' = At("rows", preload_pc.i)
    /\ response' = None
    /\ UNCHANGED << db, caches, LAST_RELOAD_TIME, lifespan_pc, task_pc, asked,
                    tags, started_from, outcome, failures, traced, codec, beside >>

\* the candles of the table have arrived
AwaitRows ==
    /\ preload_pc.step = "rows"
    /\ LET table == Tables[preload_pc.i]
           loaded == Loaded[db]
       IN /\ GLOBAL_RATES' =
                 Put(GLOBAL_RATES, table, loaded.GLOBAL_RATES[table])
          /\ GLOBAL_LAST_CANDLES' =
                 Put(GLOBAL_LAST_CANDLES, table, loaded.GLOBAL_LAST_CANDLES[table])
          /\ GLOBAL_CANDLE_RANGES' =
                 Put(GLOBAL_CANDLE_RANGES, table, loaded.GLOBAL_CANDLE_RANGES[table])
          /\ GLOBAL_AVG_RANGE' =
                 Put(GLOBAL_AVG_RANGE, table, loaded.GLOBAL_AVG_RANGE[table])
          /\ tags' = Tagged(tags, {table}, "new")
    /\ preload_pc' = At("min", preload_pc.i)
    /\ response' = None
    /\ UNCHANGED << db, GLOBAL_WEIGHT_CODES, GLOBAL_CTX_INDEX, GLOBAL_CALENDAR,
                    GLOBAL_HISTORY, GLOBAL_EXTREMUMS, LAST_RELOAD_TIME,
                    lifespan_pc, task_pc, asked, started_from, outcome, failures, traced,
                    codec, beside >>

\* the extremum query for "min" has returned
AwaitMin ==
    /\ preload_pc.step = "min"
    /\ LET table == Tables[preload_pc.i]
       IN /\ GLOBAL_EXTREMUMS' =
                 [GLOBAL_EXTREMUMS EXCEPT ![table].min =
                      Loaded[db].GLOBAL_EXTREMUMS[table].min]
          /\ tags' = Tagged(tags, {MinOf(table)}, "new")
    /\ preload_pc' = At("max", preload_pc.i)
    /\ response' = None
    /\ UNCHANGED << db, GLOBAL_WEIGHT_CODES, GLOBAL_CTX_INDEX, GLOBAL_CALENDAR,
                    GLOBAL_HISTORY, GLOBAL_RATES, GLOBAL_LAST_CANDLES,
                    GLOBAL_CANDLE_RANGES, GLOBAL_AVG_RANGE, LAST_RELOAD_TIME,
                    lifespan_pc, task_pc, asked, started_from, outcome, failures, traced,
                    codec, beside >>

\* The extremum query for "max" has returned and more tables are to come:
\* the loop empties the caches of the next table and waits for a connection.
AwaitMax ==
    /\ preload_pc.step = "max"
    /\ preload_pc.i < Len(Tables)
    /\ LET table == Tables[preload_pc.i]
           next == Tables[preload_pc.i + 1]
       IN /\ GLOBAL_EXTREMUMS' =
                 Put([GLOBAL_EXTREMUMS EXCEPT ![table].max =
                          Loaded[db].GLOBAL_EXTREMUMS[table].max],
                     next, EmptyExtremums)
          /\ GLOBAL_RATES' = Put(GLOBAL_RATES, next, EmptyDict)
          /\ GLOBAL_LAST_CANDLES' = Put(GLOBAL_LAST_CANDLES, next, <<>>)
          /\ GLOBAL_CANDLE_RANGES' = Put(GLOBAL_CANDLE_RANGES, next, EmptyDict)
          /\ GLOBAL_AVG_RANGE' = Put(GLOBAL_AVG_RANGE, next, Zero)
          /\ tags' = Tagged(Tagged(tags, {MaxOf(table)}, "new"),
                            TableSections(next), "cleared")
    /\ preload_pc' = At("connect_brain", preload_pc.i + 1)
    /\ response' = None
    /\ UNCHANGED << db, GLOBAL_WEIGHT_CODES, GLOBAL_CTX_INDEX, GLOBAL_CALENDAR,
                    GLOBAL_HISTORY, LAST_RELOAD_TIME, lifespan_pc, task_pc,
                    asked, started_from, outcome, failures, traced, codec, beside >>


\* The extremum query for "max" of the last table has returned:
\* preload_all_data sets LAST_RELOAD_TIME and returns.  In the lifespan
\* handler the task is created and the handler yields; in the task the
\* loop goes back to its sleep.
AwaitLastMax ==
    /\ preload_pc.step = "max"
    /\ preload_pc.i = Len(Tables)
    /\ LET table == Tables[preload_pc.i]
       IN GLOBAL_EXTREMUMS' =
              [GLOBAL_EXTREMUMS EXCEPT ![table].max =
                   Loaded[db].GLOBAL_EXTREMUMS[table].max]
    /\ LAST_RELOAD_TIME' = Now
    /\ tags' = Published(tags)
    /\ preload_pc' = Idle
    /\ IF lifespan_pc = "startup"
       THEN /\ lifespan_pc' = "serving"
            /\ task_pc' = "sleep"
            /\ UNCHANGED outcome
       ELSE /\ task_pc' = "sleep"
            /\ outcome' = "ok"
            /\ UNCHANGED lifespan_pc
    /\ response' = None
    /\ UNCHANGED << db, GLOBAL_WEIGHT_CODES, GLOBAL_CTX_INDEX, GLOBAL_CALENDAR,
                    GLOBAL_HISTORY, GLOBAL_RATES, GLOBAL_LAST_CANDLES,
                    GLOBAL_CANDLE_RANGES, GLOBAL_AVG_RANGE, asked, started_from,
                    failures, traced, codec, beside >>

\* the await preload_all_data is suspended at raises during startup: the
\* exception leaves the lifespan handler and the application does not start
StartupRaises ==
    /\ lifespan_pc = "startup"
    /\ preload_pc.step # "idle"
    /\ lifespan_pc' = "failed"
    /\ preload_pc' = Idle
    /\ tags' = Abandoned(tags)
    /\ response' = None
    /\ UNCHANGED << db, caches, LAST_RELOAD_TIME, task_pc, asked, started_from,
                    outcome, failures, traced, codec, beside >>

\* the calls of send_error_trace once the except clause of
\* background_reload_data has run
TraceSent(n) == n + 1

\* a loop without the except clause: the exception ends the task
ErrorEscapes == "ended"

\* the task after the exception has been traced: `except Exception` is
\* inside `while True`, so the loop goes back to its sleep
ErrorSwallowed == "sleep"

\* how many background reloads raise at most
MaxFailures == 1

\* the await preload_all_data is suspended at raises in the task: the except
\* clause prints, calls send_error_trace, and the loop goes on
ReloadRaises ==
    /\ Reloading
    /\ preload_pc.step # "idle"
    /\ failures < MaxFailures
    /\ failures' = failures + 1
    /\ preload_pc' = Idle
    /\ tags' = Abandoned(tags)
    /\ outcome' = "error"
    /\ traced' = TraceSent(traced)
    /\ task_pc' = ErrorSwallowed
    /\ response' = None
    /\ UNCHANGED << db, caches, LAST_RELOAD_TIME, lifespan_pc, asked,
                    started_from, codec, beside >>

\* asyncio.sleep(3600) is over: the task calls preload_all_data
Tick ==
    /\ lifespan_pc = "serving"
    /\ task_pc = "sleep"
    /\ task_pc' = "reload"
    /\ preload_pc' = At("connect_vlad", 0)
    /\ started_from' = Some(Snapshot)
    /\ outcome' = "none"
    /\ response' = None
    /\ UNCHANGED << db, caches, LAST_RELOAD_TIME, lifespan_pc, asked, tags,
                    failures, traced, codec, beside >>

\* get_values runs calculate_pure_memory to its end: it assigns no global
Serve(p) ==
    /\ AcceptsRequests
    /\ response' = Some(ValuesResponse(p))
    /\ UNCHANGED << db, caches, LAST_RELOAD_TIME, lifespan_pc, task_pc,
                    preload_pc, tags, started_from, outcome, failures,
                    traced, codec, beside >>

\* GET /values
GetValues(p) ==
    /\ Serve(p)
    /\ UNCHANGED asked

\* GET /weights
GetWeights ==
    /\ AcceptsRequests
    /\ response' = Some(WeightsResponse)
    /\ UNCHANGED << db, caches, LAST_RELOAD_TIME, lifespan_pc, task_pc,
                    preload_pc, asked, tags, started_from, outcome, failures, traced,
                    codec, beside >>

\* the application shuts down: the lifespan handler cancels the task
Shutdown ==
    /\ lifespan_pc = "serving"
    /\ lifespan_pc' = "stopped"
    /\ task_pc' = "cancelled"
    /\ preload_pc' = Idle
    /\ tags' = Abandoned(tags)
    /\ response' = None
    /\ UNCHANGED << db, caches, LAST_RELOAD_TIME, asked, started_from, outcome,
                    failures, traced, codec, beside >>

\* ------------------------------------------------------------------------
\* The service from its start to its shutdown
\* ------------------------------------------------------------------------

\* '2024-01-13 10:00:00', read as the 13th of January
DateT0 == DateStr("space", 1, 13, 10)

NotADate == DateStr("junk", 0, 0, 0)

\* the requests made of the running service
ServedParams ==
    { Params(1, 0, DateT0, 0, 0), Params(1, 0, DateT0, 2, 1),
      Params(1, 1, DateT0, 1, 4), Params(1, 0, NotADate, 0, 0) }

Init ==
    /\ db = 1
    /\ GLOBAL_WEIGHT_CODES = <<>>
    /\ GLOBAL_CTX_INDEX = EmptyDict
    /\ GLOBAL_CALENDAR = EmptyDict
    /\ GLOBAL_HISTORY = EmptyDict
    /\ GLOBAL_RATES = EmptyDict
    /\ GLOBAL_LAST_CANDLES = EmptyDict
    /\ GLOBAL_CANDLE_RANGES = EmptyDict
    /\ GLOBAL_AVG_RANGE = EmptyDict
    /\ GLOBAL_EXTREMUMS = EmptyDict
    /\ LAST_RELOAD_TIME = None
    /\ lifespan_pc = "created"
    /\ task_pc = "none"
    /\ preload_pc = Idle
    /\ response = None
    /\ asked = None
    /\ tags = [s \in Sections |-> "empty"]
    /\ started_from = None
    /\ outcome = "none"
    /\ failures = 0
    /\ traced = 0
    /\ codec = None
    /\ GLOBAL_EVENT_TYPES = EmptyDict
    /\ GLOBAL_CANDLE_SIZES = EmptyDict
    /\ GLOBAL_CANDLE_THRESHOLD = EmptyDict
    /\ applied = None

Next ==
    \/ DbUpdate
    \/ LifespanEnter
    \/ AwaitConnectVlad
    \/ AwaitWeightCodes
    \/ AwaitCtxIndex
    \/ AwaitCalendar
    \/ AwaitConnectBrain
    \/ AwaitRows
    \/ AwaitMin
    \/ AwaitMax
    \/ AwaitLastMax
    \/ StartupRaises
    \/ ReloadRaises
    \/ Tick
    \/ \E p \in ServedParams : GetValues(p)
    \/ GetWeights
    \/ Shutdown

Spec == Init /\ [][Next]_vars

\* an await of preload_all_data returns or raises
PreloadStep ==
    \/ AwaitConnectVlad
    \/ AwaitWeightCodes
    \/ AwaitCtxIndex
    \/ AwaitCalendar
    \/ AwaitConnectBrain
    \/ AwaitRows
    \/ AwaitMin
    \/ AwaitMax
    \/ AwaitLastMax
    \/ StartupRaises
    \/ ReloadRaises

\* The event loop runs every task that is ready: the timer of
\* asyncio.sleep(3600) fires, and a database call returns or raises.
SpecLive == Spec /\ WF_vars(Tick) /\ WF_vars(PreloadStep)

\* ------------------------------------------------------------------------
\* Properties of the lifecycle
\* ------------------------------------------------------------------------

\* C1: a request handled while a background reload is between two of its
\* awaits reads only sections of one completed build: none that the reload
\* in progress has already rewritten, none that it has emptied and not yet
\* refilled.
C1_NoHalfBuiltSnapshot ==
    (~IsNone(response) /\ Val(response).reloading)
        => \A s \in Val(response).reads : Val(response).seen[s] = "published"

\* a /values request finds the caches of its table emptied by the reload in
\* progress, next to a calendar the reload has already rewritten
C1_EmptiedTableRead ==
    /\ ~IsNone(response)
    /\ Val(response).kind = "values"
    /\ Val(response).reloading
    /\ Val(response).params.pair = 1
    /\ Val(response).params.day = 0
    /\ Val(response).seen["GLOBAL_CALENDAR"] = "new"
    /\ Val(response).seen["brain_rates_eur_usd"] = "cleared"
    /\ "brain_rates_eur_usd" \in Val(response).reads

\* a step in which a /values request is answered
QueryAnswered ==
    /\ ~IsNone(response')
    /\ Val(response').kind = "values"
    /\ response' # response

C2_FailedReloadKeepsSnapshot ==
    (outcome = "error" /\ ~IsNone(started_from))
        => Snapshot = Val(started_from)

\* the awaits of preload_all_data at which a collaborator's rows are loaded:
\* weight codes, context index, calendar and history, one price table
LoadSteps == {"weight_codes", "ctx_index", "calendar", "rows"}

\* the load preload_all_data is suspended at raises, at startup or in the
\* background task
LoadRaises ==
    /\ preload_pc.step \in LoadSteps
    /\ \/ lifespan_pc = "startup" /\ lifespan_pc' = "failed"
       \/ failures' = failures + 1

\* C13: source-load isolation.  When a load of preload_all_data raises, the
\* build is not over: preload_all_data goes on to its next load (none of
\* these loads is the last await of a build), and the lifespan handler or
\* the task that runs the build stays where it is.
C13_SourceLoadIsolation ==
    [][LoadRaises =>
          /\ preload_pc' # Idle
          /\ lifespan_pc' = lifespan_pc
          /\ task_pc' = task_pc]_vars

\* C9: every exception of a background reload is given to send_error_trace,
\* a reload that has raised is followed by another attempt unless the service
\* is shut down, and attempts start again and again while it runs.
C9_RefresherSurvivesFailure ==
    /\ [](traced = failures)
    /\ (outcome = "error") ~> (Reloading \/ lifespan_pc = "stopped")
    /\ []<>(preload_pc.step = "connect_vlad" \/ lifespan_pc # "serving")

\* a reload has raised and the next attempt is under way
C9_RetryUnderWay ==
    /\ failures >= 1
    /\ traced >= 1
    /\ Reloading
    /\ preload_pc.step = "weight_codes"

\* ------------------------------------------------------------------------
\* Requests against a snapshot that a complete build has published
\* ------------------------------------------------------------------------

\* the service between two reloads, its caches built from version v
Serving(v) ==
    /\ db = v
    /\ GLOBAL_WEIGHT_CODES = Loaded[v].GLOBAL_WEIGHT_CODES
    /\ GLOBAL_CTX_INDEX = Loaded[v].GLOBAL_CTX_INDEX
    /\ GLOBAL_CALENDAR = Loaded[v].GLOBAL_CALENDAR
    /\ GLOBAL_HISTORY = Loaded[v].GLOBAL_HISTORY
    /\ GLOBAL_RATES = Loaded[v].GLOBAL_RATES
    /\ GLOBAL_LAST_CANDLES = Loaded[v].GLOBAL_LAST_CANDLES
    /\ GLOBAL_CANDLE_RANGES = Loaded[v].GLOBAL_CANDLE_RANGES
    /\ GLOBAL_AVG_RANGE = Loaded[v].GLOBAL_AVG_RANGE
    /\ GLOBAL_EXTREMUMS = Loaded[v].GLOBAL_EXTREMUMS
    /\ LAST_RELOAD_TIME = Now
    /\ lifespan_pc = "serving"
    /\ task_pc = "sleep"
    /\ preload_pc = Idle
    /\ response = None
    /\ asked = None
    /\ tags = [s \in Sections |-> "published"]
    /\ started_from = None
    /\ outcome = "none"
    /\ failures = 0
    /\ traced = 0
    /\ codec = None
    /\ GLOBAL_EVENT_TYPES = EmptyDict
    /\ GLOBAL_CANDLE_SIZES = EmptyDict
    /\ GLOBAL_CANDLE_THRESHOLD = EmptyDict
    /\ applied = None

\* the date strings of the requests: the target hour and the hours around
\* it, the other accepted spellings, and texts no format accepts
DateTexts ==
    { DateStr("space", 1, 13, h) : h \in {8, 9, 10, 11} }
    \cup { DateStr("space", 13, 1, 10),   \* '2024-13-01 10:00:00'
           DateStr("T", 1, 13, 10),       \* '2024-01-13T10:00:00'
           DateStr("date", 1, 13, 0),     \* '2024-01-13'
           DateStr("space", 1, 2, 10),    \* '2024-01-02 10:00:00'
           DateStr("space", 2, 30, 10),   \* '2024-02-30 10:00:00'
           DateStr("space", 1, 13, 24),   \* '2024-01-13 24:00:00'
           DateStr("T", 13, 1, 10),       \* '2024-13-01T10:00:00'
           NotADate }

AllParams ==
    { Params(pair, day, date, type, var) :
        pair \in {1, 3}, day \in {0, 1}, date \in DateTexts,
        type \in 0..2, var \in 0..4 }

QueryInit == \E v \in 1..MaxDbVersion : Serving(v)

\* a request arrives once the response before it has been sent
Ask(p) ==
    /\ IsNone(response)
    /\ GetValues(p)

\* the response is sent
Send ==
    /\ ~IsNone(response)
    /\ response' = None
    /\ UNCHANGED << db, caches, LAST_RELOAD_TIME, lifespan_pc, task_pc,
                    preload_pc, asked, tags, started_from, outcome, failures,
                    traced, codec, beside >>

QueryNext ==
    \/ \E p \in AllParams : Ask(p)
    \/ Send

SpecQuery == QueryInit /\ [][QueryNext]_vars

\* ------------------------------------------------------------------------
\* The contract of calculate_pure_memory
\* ------------------------------------------------------------------------

\* two maps with the same keys and the same value under each key
SameMap(a, b) ==
    /\ DOMAIN a = DOMAIN b
    /\ \A k \in DOMAIN a : a[k] = b[k]

\* a /values response is waiting to be sent
Answered == ~IsNone(response) /\ Val(response).kind = "values"

\* the parameters of that response
Asked == Val(response).params

\* the additions to `result` that the answered request made
Additions ==
    QueryEmissions(Snapshot, Asked.pair, Asked.day, Asked.date, Asked.type,
                   Asked.var)

\* the additions behind the entries of the returned map
Returned ==
    SelectSeq(Additions, LAMBDA a : a.code \in DOMAIN Val(response).body)

\* the occurrences of the answered request's events that are in history
OccurrencesOf(eid) == Get(GLOBAL_HISTORY, eid, <<>>)

\* C3: causality.  Every occurrence behind an entry of the returned map is
\* strictly before the target: the dates an addition was computed from are
\* all earlier than the target, every candle it read is the candle of one of
\* these dates moved by the shift, and no occurrence of the event at the
\* target or later is among them.
C3_Causality ==
    Answered /\ ~IsNone(parse_date_string(Asked.date)) =>
        LET target == Val(parse_date_string(Asked.date))
        IN \A i \in 1..Len(Returned) :
             LET a == Returned[i]
             IN /\ \A j \in 1..Len(a.valid_dates) : a.valid_dates[j] < target
                /\ Len(a.t_dates) = Len(a.valid_dates)
                /\ \A j \in 1..Len(a.t_dates) :
                     a.t_dates[j] - a.shift * Unit(Asked.day) = a.valid_dates[j]
                /\ \A j \in 1..Len(OccurrencesOf(a.event_id)) :
                     OccurrencesOf(a.event_id)[j] >= target
                        => OccurrencesOf(a.event_id)[j] \notin Range(a.valid_dates)

\* an entry is returned at a non-zero shift for an event that also has an
\* occurrence at the target itself: that occurrence is the one left out
C3_OccurrenceAtTargetLeftOut ==
    /\ Answered
    /\ ~IsNone(parse_date_string(Asked.date))
    /\ \E i \in 1..Len(Returned) :
         /\ Val(parse_date_string(Asked.date)) \in Range(OccurrencesOf(Returned[i].event_id))
         /\ Returned[i].valid_dates # <<>>
         /\ Returned[i].shift # 0

\* the context of an addition is in the index with occurrence_count 1
CountIsOne(a) ==
    LET ctx_key == <<a.event_id, a.context[1], a.context[2], a.context[3]>>
    IN /\ ctx_key \in DOMAIN GLOBAL_CTX_INDEX
       /\ GLOBAL_CTX_INDEX[ctx_key].occurrence_count = 1

\* Non-recurring containment in this server: an addition for a context whose
\* occurrence_count is 1 is made at shift 0 only, under the code without a
\* shift suffix.
NonRecurringContained ==
    Answered =>
        \A i \in 1..Len(Additions) :
            LET a == Additions[i]
            IN CountIsOne(a) =>
                 /\ a.shift = 0
                 /\ a.code = build_weight_code(a.event_id, a.context[1],
                                               a.context[2], a.context[3],
                                               a.mode, None)

\* an entry for a context seen once, while an observation of the same event
\* at another shift is inside the window
NonRecurringObserved ==
    /\ Answered
    /\ ~IsNone(parse_date_string(Asked.date))
    /\ \E i \in 1..Len(Returned) :
         /\ CountIsOne(Returned[i])
         /\ \E d \in Range(CheckDates(Val(parse_date_string(Asked.date)), Asked.day)) :
              /\ d # Val(parse_date_string(Asked.date))
              /\ \E e \in Range(Get(GLOBAL_CALENDAR, d, <<>>)) :
                   e.EventId = Returned[i].event_id

\* C5: zero-suppression.  No entry of the map that calculate_pure_memory
\* returns has the value 0.0.
C5_ZeroSuppression ==
    Answered /\ ~IsNone(parse_date_string(Asked.date)) =>
        \A k \in DOMAIN Val(response).body : Val(response).body[k] # FixedZero

\* the texts that one of the formats of parse_date_string accepts:
\* '2024-DD-MM HH:00:00' or '2024-MM-DD HH:00:00', '2024-MM-DDTHH:00:00',
\* '2024-MM-DD', with a day that the month has and an hour of the day
AcceptedText(s) ==
    \/ /\ s.shape = "space"
       /\ s.hh \in 0..23
       /\ \/ s.f3 \in 1..12 /\ s.f2 \in 1..DaysInMonth[s.f3]
          \/ s.f2 \in 1..12 /\ s.f3 \in 1..DaysInMonth[s.f2]
    \/ /\ s.shape = "T"
       /\ s.hh \in 0..23
       /\ s.f2 \in 1..12 /\ s.f3 \in 1..DaysInMonth[s.f2]
    \/ /\ s.shape = "date"
       /\ s.f2 \in 1..12 /\ s.f3 \in 1..DaysInMonth[s.f2]

\* C10: a date string that none of the formats accepts is answered with the
\* map {"error": "Invalid date format"} and nothing else, and the handler
\* has read no section of the snapshot.
C10_InvalidDate ==
    Answered /\ ~AcceptedText(Asked.date) =>
        /\ DOMAIN Val(response).body = {"error"}
        /\ Val(response).body["error"] = "Invalid date format"
        /\ Val(response).reads = {}

\* a date of the right shape with a day its month does not have is refused
C10_Refused ==
    /\ Answered
    /\ Asked.date = DateStr("space", 2, 30, 10)
    /\ DOMAIN Val(response).body = {"error"}

\* the target of the answered request (its date is one a format accepts)
Target == Val(parse_date_string(Asked.date))

\* the calendar entries the answered request found at its check timestamps
Candidates ==
    EventsInWindow(Snapshot, CheckDates(Target, Asked.day), Target)

\* the candidates that have a release strictly before the target
CandidatesWithHistory ==
    SelectSeq(Candidates,
              LAMBDA e : \E d \in Range(OccurrencesOf(e.EventId)) : d < Target)

\* C15: emission soundness.  Every code of the returned map stems from an
\* observation at one of the check timestamps target - k * unit, k in
\* -W..W, whose event has a release strictly before the target; the map is
\* {} when no observation is at a check timestamp; and the map is the one
\* the candidates with a causal history give on their own: a candidate
\* without one yields no code and changes no other entry.
C15_EmissionSoundness ==
    Answered /\ ~IsNone(parse_date_string(Asked.date)) =>
        /\ \A k \in DOMAIN Val(response).body :
              \E i \in 1..Len(Returned) : Returned[i].code = k
        /\ \A i \in 1..Len(Returned) :
              /\ \E k \in -WINDOW..WINDOW :
                    Returned[i].event_date = Target - k * Unit(Asked.day)
              /\ \E d \in Range(OccurrencesOf(Returned[i].event_id)) : d < Target
        /\ (\A k \in -WINDOW..WINDOW :
               Get(GLOBAL_CALENDAR, Target - k * Unit(Asked.day), <<>>) = <<>>)
              => Val(response).body = EmptyDict
        /\ SameMap(Val(response).body,
                   Finalize(Accumulate(
                       Emissions(Snapshot, CandidatesWithHistory, Asked.pair,
                                 Asked.day, Target, Asked.type, Asked.var))))

\* a candidate at the target has no release before it, its context is in the
\* index, and the map has the codes of the other candidates
C15_CandidateWithoutHistory ==
    /\ Answered
    /\ ~IsNone(parse_date_string(Asked.date))
    /\ Val(response).body # EmptyDict
    /\ \E i \in 1..Len(Candidates) :
         LET e == Candidates[i]
             ctx == get_last_known_context(Snapshot, e.EventId, Target)
         IN /\ e.event_date = Target
            /\ \A d \in Range(OccurrencesOf(e.EventId)) : d >= Target
            /\ << e.EventId, ctx[1], ctx[2], ctx[3] >> \in DOMAIN GLOBAL_CTX_INDEX
            /\ \A j \in 1..Len(Returned) : Returned[j].event_id # e.EventId

\* the number a value rounded to six decimals stands for
FixedToNum(f) == Num(f.whole * 1000000 + f.micro, -6)

NumEq(a, b) == ~NumLt(a, b) /\ ~NumLt(b, a)

\* the additions of the answered request that alone made their entry of the
\* map, by mode
SoleAdditions(mode) ==
    SelectSeq(Returned,
              LAMBDA a : /\ a.mode = mode
                         /\ Cardinality({i \in 1..Len(Additions) :
                                            Additions[i].code = a.code}) = 1)

\* the extremum set the answered request selected: the max set after a
\* bullish candle, the min set after a bearish one
SelectedExtremums ==
    LET table == get_rates_table_name(Asked.pair, Asked.day)
        prev_candle == find_prev_candle_trend(Snapshot, table, Target)
        ram_ext == Get(GLOBAL_EXTREMUMS, table, EmptyExtremums)
    IN IF Val(prev_candle)[2] THEN ram_ext.max ELSE ram_ext.min

\* the shifted history timestamps of an addition that are in the set
Matches(a) == Cardinality({j \in 1..Len(a.t_dates) : a.t_dates[j] \in SelectedExtremums})

\* ((matches / total) * 2 - 1) * modification_factor(pair)
ExtremumFormula(a) ==
    NumMul(Norm(2 * Matches(a) - Len(a.valid_dates), Len(a.valid_dates), 0),
           get_modification_factor(Asked.pair))

\* the statement of C16 as it stands: the emitted value is the formula's
\* value itself
C16_ExtremumIsFormula ==
    (Answered /\ ~IsNone(parse_date_string(Asked.date)) /\ Asked.var = 0) =>
        \A i \in 1..Len(SoleAdditions(1)) :
            LET a == SoleAdditions(1)[i]
            IN NumEq(FixedToNum(Val(response).body[a.code]), ExtremumFormula(a))

\* C16: extremum component, variant 0.  The value under a mode-1 code is
\* ((matches / total) * 2 - 1) * modification_factor(pair) rounded to six
\* decimals, total the number of causal history timestamps and matches the
\* number of shifted ones in the selected extremum set; it lies between
\* -factor and +factor, and it is the factor itself when every shifted
\* timestamp is in the set.  With a single occurrence at shift 0 the mode-0
\* code holds the price value at that timestamp, rounded to six decimals.
C16_ExtremumIsRoundedFormula ==
    (Answered /\ ~IsNone(parse_date_string(Asked.date)) /\ Asked.var = 0) =>
        LET factor == get_modification_factor(Asked.pair)
            rates == Get(GLOBAL_RATES, get_rates_table_name(Asked.pair, Asked.day),
                         EmptyDict)
        IN /\ \A i \in 1..Len(SoleAdditions(1)) :
                LET a == SoleAdditions(1)[i]
                    value == Val(response).body[a.code]
                IN /\ value = Round6(ExtremumFormula(a))
                   /\ NumLe(NumNeg(factor), FixedToNum(value))
                   /\ NumLe(FixedToNum(value), factor)
                   /\ Matches(a) = Len(a.valid_dates) => value = Round6(factor)
           /\ \A i \in 1..Len(SoleAdditions(0)) :
                LET a == SoleAdditions(0)[i]
                IN (Len(a.valid_dates) = 1 /\ a.shift = 0) =>
                      Val(response).body[a.code]
                         = Round6(Get(rates, a.valid_dates[1], Zero))

\* one occurrence before the target, in the max set, after a bullish candle:
\* the mode-1 code holds the factor; and another mode-1 code of the same map
\* holds a value that six decimals do not write exactly
C16_AllMatchAndThird ==
    /\ Answered
    /\ ~IsNone(parse_date_string(Asked.date))
    /\ Asked.var = 0
    /\ \E i \in 1..Len(SoleAdditions(1)) :
         LET a == SoleAdditions(1)[i]
         IN /\ Len(a.valid_dates) = 1
            /\ Matches(a) = 1
            /\ a.shift = 0
            /\ ~a.recurring
            /\ Val(response).body[a.code] = Round6(get_modification_factor(Asked.pair))
    /\ \E i \in 1..Len(SoleAdditions(1)) :
         LET a == SoleAdditions(1)[i]
         IN /\ Len(a.valid_dates) = 3
            /\ Matches(a) = 1
            /\ ~NumEq(FixedToNum(Val(response).body[a.code]), ExtremumFormula(a))

\* the modes of the additions that made the entries of the answered map
ModesReturned == {Returned[i].mode : i \in 1..Len(Returned)}

\* src/27/server.py adds to a mode-0 code when calc_type is 0 or 1 and to a
\* mode-1 code when calc_type is 0 or 2
TypeSelectsComponents27 ==
    (Answered /\ ~IsNone(parse_date_string(Asked.date))) =>
        /\ Asked.type = 1 => ModesReturned \subseteq {0}
        /\ Asked.type = 2 => ModesReturned \subseteq {1}

\* ------------------------------------------------------------------------
\* The same request again, after other requests
\* ------------------------------------------------------------------------

\* the requests between a remembered response and the one compared with it
\* are counted up to MaxBetween
MaxBetween == 2

RepeatParams ==
    { Params(1, 0, date, type, var) :
        date \in {DateStr("space", 1, 13, 10), DateStr("space", 1, 13, 9), NotADate},
        type \in {0, 2}, var \in {0, 1} }

\* the client keeps the response it has just received
Remember ==
    /\ ~IsNone(response)
    /\ asked' = Some([first |-> Val(response), between |-> 0])
    /\ UNCHANGED << db, caches, LAST_RELOAD_TIME, lifespan_pc, task_pc,
                    preload_pc, response, tags, started_from, outcome,
                    failures, traced, codec, beside >>

\* another request is served
Query(p) ==
    /\ Serve(p)
    /\ asked' = IF IsNone(asked) THEN asked
                ELSE Some([Val(asked) EXCEPT
                              !.between = Min2(@ + 1, MaxBetween)])

RepeatNext ==
    \/ \E p \in RepeatParams : Query(p)
    \/ Remember

SpecRepeat == QueryInit /\ [][RepeatNext]_vars

Word_UNKNOWN == << "U", "N", "K", "N", "O", "W", "N" >>
Word_UP == << "U", "P" >>
Word_DOWN == << "D", "O", "W", "N" >>
Word_FLAT == << "F", "L", "A", "T" >>
Word_ABOVE == << "A", "B", "O", "V", "E" >>
Word_BELOW == << "B", "E", "L", "O", "W" >>
Word_AT == << "A", "T" >>

RATE_CHANGE_MAP ==
    (Word_UNKNOWN :> "X") @@ (Word_UP :> "U") @@ (Word_DOWN :> "D")
    @@ (Word_FLAT :> "F")

TREND_MAP ==
    (Word_UNKNOWN :> "X") @@ (Word_ABOVE :> "A") @@ (Word_BELOW :> "B")
    @@ (Word_AT :> "T")

MOMENTUM_MAP ==
    (Word_UNKNOWN :> "X") @@ (Word_UP :> "U") @@ (Word_DOWN :> "D")
    @@ (Word_FLAT :> "F")

\* {v: k for k, v in m.items()}
Reversed(m) == [c \in Range(m) |-> CHOOSE k \in DOMAIN m : m[k] = c]

RATE_CHANGE_MAP_REV == Reversed(RATE_CHANGE_MAP)
TREND_MAP_REV == Reversed(TREND_MAP)
MOMENTUM_MAP_REV == Reversed(MOMENTUM_MAP)

SHIFT_MIN == -12
SHIFT_MAX == 12

\* maps.get(direction_type, {}).get(value, "X")
encode_direction(value, direction_type) ==
    LET maps == [change |-> RATE_CHANGE_MAP, trend |-> TREND_MAP,
                 momentum |-> MOMENTUM_MAP]
    IN Get(maps[direction_type], value, "X")

DigitChars == << "0", "1", "2", "3", "4", "5", "6", "7", "8", "9" >>

RECURSIVE NatToChars(_)
NatToChars(n) ==
    IF n < 10 THEN << DigitChars[n + 1] >>
    ELSE NatToChars(n \div 10) \o << DigitChars[(n % 10) + 1] >>

\* an integer formatted without its sign
AbsToChars(n) == NatToChars(Abs(n))

\* f"{n}" for an int
IntToChars(n) == IF n < 0 THEN << "-" >> \o NatToChars(-n) ELSE NatToChars(n)

\* f"{currency}_{rcd_c}_{td_c}_{md_c}_{mode}", with f"_{day_shift}" after it
\* unless day_shift is None
make_weight_code(currency, rcd, td, md, mode, day_shift) ==
    LET rcd_c == encode_direction(rcd, "change")
        td_c == encode_direction(td, "trend")
        md_c == encode_direction(md, "momentum")
        base == currency \o << "_", rcd_c, "_", td_c, "_", md_c, "_" >>
                \o IntToChars(mode)
    IN IF IsNone(day_shift) THEN base
       ELSE base \o << "_" >> \o IntToChars(Val(day_shift))

\* str.split(sep): the list of the parts between the separators
RECURSIVE Split(_, _)
Split(chars, sep) ==
    IF \A i \in 1..Len(chars) : chars[i] # sep THEN << chars >>
    ELSE LET at == CHOOSE i \in 1..Len(chars) :
                      /\ chars[i] = sep
                      /\ \A j \in 1..(i - 1) : chars[j] # sep
         IN << SubSeq(chars, 1, at - 1) >>
            \o Split(SubSeq(chars, at + 1, Len(chars)), sep)

DigitOf(c) == (CHOOSE d \in 1..10 : DigitChars[d] = c) - 1

RECURSIVE DigitsValue(_)
DigitsValue(chars) ==
    IF chars = <<>> THEN 0
    ELSE 10 * DigitsValue(SubSeq(chars, 1, Len(chars) - 1))
         + DigitOf(chars[Len(chars)])

AllDigits(chars) ==
    /\ chars # <<>>
    /\ \A i \in 1..Len(chars) : chars[i] \in Range(DigitChars)

\* int(text): None stands for the ValueError
ParseInt(chars) ==
    IF AllDigits(chars) THEN Some(DigitsValue(chars))
    ELSE IF chars # <<>> /\ chars[1] = "-" /\ AllDigits(Tail(chars))
         THEN Some(-DigitsValue(Tail(chars)))
    ELSE IF chars # <<>> /\ chars[1] = "+" /\ AllDigits(Tail(chars))
         THEN Some(DigitsValue(Tail(chars)))
    ELSE None

\* REV.get(part, part)
Decoded(rev, part) ==
    IF Len(part) = 1 /\ part[1] \in DOMAIN rev THEN rev[part[1]] ELSE part

\* decode_weight_code: "empty" stands for {} and "ValueError" for the
\* exception of int()
decode_weight_code(weight_code) ==
    LET parts == Split(weight_code, "_")
    IN IF Len(parts) < 5 THEN [kind |-> "empty"]
       ELSE IF IsNone(ParseInt(parts[5])) THEN [kind |-> "ValueError"]
       ELSE IF Len(parts) > 5 /\ IsNone(ParseInt(parts[6]))
            THEN [kind |-> "ValueError"]
       ELSE [kind |-> "dict",
             currency |-> parts[1],
             rate_change_dir |-> Decoded(RATE_CHANGE_MAP_REV, parts[2]),
             trend_dir |-> Decoded(TREND_MAP_REV, parts[3]),
             momentum_dir |-> Decoded(MOMENTUM_MAP_REV, parts[4]),
             mode_val |-> Val(ParseInt(parts[5])),
             day_shift |-> IF Len(parts) > 5 THEN ParseInt(parts[6]) ELSE None]

\* the entities of the two generators: a currency of ecb_rate_weights.py and
\* an instrument of market_weights.py
Entities == { << "U", "S", "D" >>, << "E", "U", "R", "U", "S", "D" >> }

\* the valid arguments of make_weight_code
ValidTuples ==
    { [currency |-> e, rate_change_dir |-> rcd, trend_dir |-> td,
       momentum_dir |-> md, mode_val |-> mode, day_shift |-> shift] :
        e \in Entities, rcd \in DOMAIN RATE_CHANGE_MAP, td \in DOMAIN TREND_MAP,
        md \in DOMAIN MOMENTUM_MAP, mode \in {0, 1},
        shift \in {None} \cup { Some(n) : n \in SHIFT_MIN..SHIFT_MAX } }

\* make_weight_code is called
MakeCode(t) ==
    /\ IsNone(codec)
    /\ codec' = Some([args |-> t,
                      code |-> make_weight_code(t.currency, t.rate_change_dir,
                                                t.trend_dir, t.momentum_dir,
                                                t.mode_val, t.day_shift),
                      out |-> None])
    /\ UNCHANGED << db, caches, LAST_RELOAD_TIME, lifespan_pc, task_pc,
                    preload_pc, response, asked, tags, started_from, outcome,
                    failures, traced, beside >>

\* decode_weight_code is called with the code it made
DecodeCode ==
    /\ ~IsNone(codec)
    /\ IsNone(Val(codec).out)
    /\ codec' = Some([Val(codec) EXCEPT
                         !.out = Some(decode_weight_code(Val(codec).code))])
    /\ UNCHANGED << db, caches, LAST_RELOAD_TIME, lifespan_pc, task_pc,
                    preload_pc, response, asked, tags, started_from, outcome,
                    failures, traced, beside >>

CodecNext ==
    \/ \E t \in ValidTuples : MakeCode(t)
    \/ DecodeCode

SpecCodec == Init /\ [][CodecNext]_vars

\* C7: round trip.  decode_weight_code gives back the tuple the code was
\* made from: the entity, the three labels, the mode, and the shift, None
\* and the negative ones included.
C7_RoundTrip ==
    (~IsNone(codec) /\ ~IsNone(Val(codec).out)) =>
        LET t == Val(codec).args
            d == Val(Val(codec).out)
        IN /\ d.kind = "dict"
           /\ d.currency = t.currency
           /\ d.rate_change_dir = t.rate_change_dir
           /\ d.trend_dir = t.trend_dir
           /\ d.momentum_dir = t.momentum_dir
           /\ d.mode_val = t.mode_val
           /\ d.day_shift = t.day_shift

\* the code of a tuple with the lowest shift has been decoded
C7_NegativeShiftDecoded ==
    /\ ~IsNone(codec)
    /\ ~IsNone(Val(codec).out)
    /\ Val(codec).args.day_shift = Some(SHIFT_MIN)
    /\ Val(codec).args.mode_val = 1
    /\ Val(Val(codec).out).kind = "dict"
    /\ Val(codec).code[Len(Val(codec).code) - 2] = "-"

\* ------------------------------------------------------------------------
\* Service 23 (23/server_23.py; 23/server.py has the same
\* calculate_pure_memory): no context index, the importance of an event
\* decides whether its codes carry a shift
\* ------------------------------------------------------------------------

DateFormats23 == << "%Y-%d-%m %H:%M:%S", "%Y-%m-%d %H:%M:%S" >>

parse_date_string_23(date_str) == TryFormats(date_str, DateFormats23)

\* the in-memory join of brain_calendar with the event index: the calendar
\* entries and the history, in the order of brain_events
IndexMap23(index_rows) ==
    [key \in {<<r.EventName, r.Country>> : r \in Range(index_rows)} |->
        LET last == CHOOSE i \in 1..Len(index_rows) :
                        /\ <<index_rows[i].EventName, index_rows[i].Country>> = key
                        /\ \A j \in (i + 1)..Len(index_rows) :
                             <<index_rows[j].EventName, index_rows[j].Country>> # key
        IN [EventId |-> index_rows[last].EventId,
            Importance |-> index_rows[last].Importance]]

Matched23(brain_events, index_map) ==
    SelectSeq(brain_events,
              LAMBDA ev : <<ev.EventName, ev.Country>> \in DOMAIN index_map)

RECURSIVE JoinCalendar23(_, _)
JoinCalendar23(matched, index_map) ==
    IF matched = <<>> THEN EmptyDict
    ELSE LET ev == matched[Len(matched)]
             before == JoinCalendar23(SubSeq(matched, 1, Len(matched) - 1), index_map)
             found == index_map[<<ev.EventName, ev.Country>>]
             dt == ev.FullDate
         IN Put(before, dt,
                Append(Get(before, dt, <<>>),
                       [EventId |-> found.EventId,
                        Importance |-> found.Importance,
                        event_date |-> dt]))

RECURSIVE JoinHistory23(_, _)
JoinHistory23(matched, index_map) ==
    IF matched = <<>> THEN EmptyDict
    ELSE LET ev == matched[Len(matched)]
             before == JoinHistory23(SubSeq(matched, 1, Len(matched) - 1), index_map)
             eid == index_map[<<ev.EventName, ev.Country>>].EventId
         IN Put(before, eid, Append(Get(before, eid, <<>>), ev.FullDate))

\* the calendar entries of the check dates, 'low' ones only at the target
RECURSIVE EventsInWindow23(_, _, _)
EventsInWindow23(G, dates, target_date) ==
    IF dates = <<>> THEN <<>>
    ELSE SelectSeq(Get(G.GLOBAL_CALENDAR, Head(dates), <<>>),
                   LAMBDA e : ~(e.Importance = "low" /\ Head(dates) # target_date))
         \o EventsInWindow23(G, Tail(dates), target_date)

\* evt_type = 1 if event['Importance'] in ['medium', 'high'] else 0
EvtType23(event) == IF event.Importance \in {"medium", "high"} THEN 1 ELSE 0

\* not ((evt_type == 0 and shift != 0) or (evt_type == 1 and abs(shift) > 12))
Needed23(evt_type, shift) ==
    ~ ( \/ (evt_type = 0 /\ shift # 0)
        \/ (evt_type = 1 /\ Abs(shift) > 12) )

\* f"{evt_id}_{evt_type}_{mode}" + (f"_{shift}" if evt_type == 1 else "")
Key23(evt_id, evt_type, mode, shift) ==
    ToString(evt_id) \o "_" \o ToString(evt_type) \o "_" \o ToString(mode)
    \o (IF evt_type = 1 THEN "_" \o ToString(shift) ELSE "")

\* the sum of the rates found at the shifted dates
SumT1_23(t_dates, ram_rates) ==
    NumSum([i \in 1..Len(t_dates) |-> Get(ram_rates, t_dates[i], Zero)])

\* What one event of the window assigns to raw_result: key0, then key1 when
\* a candle before the target is known.
EventEmissions23(G, event, pair, day, target_date) ==
    LET rates_table == get_rates_table_name(pair, day)
        modification == get_modification_factor(pair)
        ram_rates == Get(G.GLOBAL_RATES, rates_table, EmptyDict)
        ram_ext == Get(G.GLOBAL_EXTREMUMS, rates_table, EmptyExtremums)
        prev_candle_info == find_prev_candle_trend(G, rates_table, target_date)
        shift == ShiftOf(target_date, event.event_date, day)
        evt_type == EvtType23(event)
        evt_id == event.EventId
        valid_h_dates == SelectSeq(Get(G.GLOBAL_HISTORY, evt_id, <<>>),
                                   LAMBDA d : d < target_date)
        t_dates == [i \in 1..Len(valid_h_dates) |->
                        valid_h_dates[i] + shift * Unit(day)]
        made(mode, value) ==
            [code |-> Key23(evt_id, evt_type, mode, shift), mode |-> mode,
             value |-> value, event_id |-> evt_id, evt_type |-> evt_type,
             shift |-> shift]
        ext_set == IF Val(prev_candle_info)[2] THEN ram_ext.max ELSE ram_ext.min
        matches == Len(SelectSeq(t_dates, LAMBDA d : d \in ext_set))
        total == Len(valid_h_dates)
    IN IF ~Needed23(evt_type, shift) THEN <<>>
       ELSE IF valid_h_dates = <<>> THEN <<>>
       ELSE << made(0, SumT1_23(t_dates, ram_rates)) >>
            \o (IF ~IsNone(prev_candle_info)
                THEN << made(1, NumMul(Norm(2 * matches - total, total, 0),
                                       modification)) >>
                ELSE <<>>)

RECURSIVE Emissions23(_, _, _, _, _)
Emissions23(G, events, pair, day, target_date) ==
    IF events = <<>> THEN <<>>
    ELSE EventEmissions23(G, Head(events), pair, day, target_date)
         \o Emissions23(G, Tail(events), pair, day, target_date)

\* raw_result[key] = value, for every assignment in order
RECURSIVE Assign23(_)
Assign23(emissions) ==
    IF emissions = <<>> THEN EmptyDict
    ELSE Put(Assign23(SubSeq(emissions, 1, Len(emissions) - 1)),
             emissions[Len(emissions)].code, emissions[Len(emissions)].value)

\* the assignments a query makes to raw_result
QueryEmissions23(G, pair, day, date_str) ==
    LET target_date == parse_date_string_23(date_str)
    IN IF IsNone(target_date) THEN <<>>
       ELSE Emissions23(G,
                        EventsInWindow23(G, CheckDates(Val(target_date), day),
                                         Val(target_date)),
                        pair, day, Val(target_date))

calculate_pure_memory_23(G, pair, day, date_str) ==
    LET target_date == parse_date_string_23(date_str)
    IN IF IsNone(target_date) THEN ErrorResult
       ELSE Finalize(Assign23(QueryEmissions23(G, pair, day, date_str)))

\* brain.brain_calendar: GDP has a single release, five hours before T0;
\* the last row has no entry in the event index
BrainCalendarRows23(v) ==
    << [EventName |-> "CPI", Country |-> "US", FullDate |-> T0 - 24],
       [EventName |-> "CPI", Country |-> "US", FullDate |-> T0 - 48],
       [EventName |-> "NFP", Country |-> "US", FullDate |-> T0],
       [EventName |-> "NFP", Country |-> "US", FullDate |-> T0 - 8],
       [EventName |-> "PMI", Country |-> "EU", FullDate |-> T0 - 2],
       [EventName |-> "PMI", Country |-> "EU", FullDate |-> T0],
       [EventName |-> "GDP", Country |-> "EU", FullDate |-> T0 - 5],
       [EventName |-> "XYZ", Country |-> "JP", FullDate |-> T0 - 3] >>
    \o (IF v >= 2
        THEN << [EventName |-> "CPI", Country |-> "US", FullDate |-> T0 + 2] >>
        ELSE << >>)

\* vlad.vlad_brain_calendar_event_index
EventIndexRows23(v) ==
    << [EventName |-> "CPI", Country |-> "US", EventId |-> 1, Importance |-> "medium"],
       [EventName |-> "NFP", Country |-> "US", EventId |-> 2, Importance |-> "high"],
       [EventName |-> "PMI", Country |-> "EU", EventId |-> 3, Importance |-> "low"],
       [EventName |-> "GDP", Country |-> "EU", EventId |-> 4, Importance |-> "high"] >>

\* what the loads of server_23.py make of each version of the content
Loaded23 ==
    [v \in 1..MaxDbVersion |->
        LET index_map == IndexMap23(EventIndexRows23(v))
            matched == Matched23(BrainCalendarRows23(v), index_map)
        IN [GLOBAL_WEIGHT_CODES |-> LoadWeightCodes(WeightRows(v)),
            GLOBAL_CALENDAR |-> JoinCalendar23(matched, index_map),
            GLOBAL_HISTORY |-> JoinHistory23(matched, index_map),
            GLOBAL_RATES |-> [t \in TableSet |-> LoadRates(RateRows(t, v))],
            GLOBAL_LAST_CANDLES |-> [t \in TableSet |-> LoadLastCandles(RateRows(t, v))],
            GLOBAL_EXTREMUMS |-> [t \in TableSet |->
                                     [min |-> LoadExtremums(t, RateRows(t, v), "min"),
                                      max |-> LoadExtremums(t, RateRows(t, v), "max")]]]]

\* the sections preload_all_data of server_23.py writes
Sections23 == Sections \ {"GLOBAL_CTX_INDEX"}

Tagged23(tg, S, tag) == [s \in Sections23 |-> IF s \in S THEN tag ELSE tg[s]]

\* the caches server_23.py does not have
Unused23 == << GLOBAL_CTX_INDEX, GLOBAL_CANDLE_RANGES, GLOBAL_AVG_RANGE,
               LAST_RELOAD_TIME, task_pc, asked, started_from, outcome,
               failures, traced, codec, beside >>

Init23 ==
    /\ db \in 1..MaxDbVersion
    /\ GLOBAL_WEIGHT_CODES = <<>>
    /\ GLOBAL_CTX_INDEX = EmptyDict
    /\ GLOBAL_CALENDAR = EmptyDict
    /\ GLOBAL_HISTORY = EmptyDict
    /\ GLOBAL_RATES = EmptyDict
    /\ GLOBAL_LAST_CANDLES = EmptyDict
    /\ GLOBAL_CANDLE_RANGES = EmptyDict
    /\ GLOBAL_AVG_RANGE = EmptyDict
    /\ GLOBAL_EXTREMUMS = EmptyDict
    /\ LAST_RELOAD_TIME = None
    /\ lifespan_pc = "created"
    /\ task_pc = "none"
    /\ preload_pc = Idle
    /\ response = None
    /\ asked = None
    /\ tags = [s \in Sections23 |-> "empty"]
    /\ started_from = None
    /\ outcome = "none"
    /\ failures = 0
    /\ traced = 0
    /\ codec = None
    /\ GLOBAL_EVENT_TYPES = EmptyDict
    /\ GLOBAL_CANDLE_SIZES = EmptyDict
    /\ GLOBAL_CANDLE_THRESHOLD = EmptyDict
    /\ applied = None

\* lifespan: `await preload_all_data()` runs up to the first query
LifespanEnter23 ==
    /\ lifespan_pc = "created"
    /\ lifespan_pc' = "startup"
    /\ preload_pc' = At("weight_codes", 0)
    /\ UNCHANGED << db, GLOBAL_WEIGHT_CODES, GLOBAL_CALENDAR, GLOBAL_HISTORY,
                    GLOBAL_RATES, GLOBAL_LAST_CANDLES, GLOBAL_EXTREMUMS,
                    response, tags, Unused23 >>

\* a connection cannot be had: the exception of `async with
\* engine.connect()` leaves preload_all_data and the lifespan handler
ConnectRaises23 ==
    /\ lifespan_pc = "startup"
    /\ \/ preload_pc.step \in {"weight_codes", "brain_calendar"}
       \/ preload_pc.step = "connect_rates"
    /\ lifespan_pc' = "failed"
    /\ preload_pc' = Idle
    /\ UNCHANGED << db, GLOBAL_WEIGHT_CODES, GLOBAL_CALENDAR, GLOBAL_HISTORY,
                    GLOBAL_RATES, GLOBAL_LAST_CANDLES, GLOBAL_EXTREMUMS,
                    response, tags, Unused23 >>

\* the weight codes have arrived
WeightCodesLoaded23 ==
    /\ preload_pc.step = "weight_codes"
    /\ GLOBAL_WEIGHT_CODES' = Loaded23[db].GLOBAL_WEIGHT_CODES
    /\ tags' = Tagged23(tags, {"GLOBAL_WEIGHT_CODES"}, "built")
    /\ preload_pc' = At("brain_calendar", 0)
    /\ UNCHANGED << db, GLOBAL_CALENDAR, GLOBAL_HISTORY, GLOBAL_RATES,
                    GLOBAL_LAST_CANDLES, GLOBAL_EXTREMUMS, lifespan_pc,
                    response, Unused23 >>

\* the query of the weight codes raises: printed, and the build goes on
WeightCodesFailed23 ==
    /\ preload_pc.step = "weight_codes"
    /\ tags' = Tagged23(tags, {"GLOBAL_WEIGHT_CODES"}, "failed")
    /\ preload_pc' = At("brain_calendar", 0)
    /\ UNCHANGED << db, GLOBAL_WEIGHT_CODES, GLOBAL_CALENDAR, GLOBAL_HISTORY,
                    GLOBAL_RATES, GLOBAL_LAST_CANDLES, GLOBAL_EXTREMUMS,
                    lifespan_pc, response, Unused23 >>

\* brain_calendar has arrived
BrainCalendarFetched23 ==
    /\ preload_pc.step = "brain_calendar"
    /\ preload_pc' = At("event_index", 0)
    /\ UNCHANGED << db, GLOBAL_WEIGHT_CODES, GLOBAL_CALENDAR, GLOBAL_HISTORY,
                    GLOBAL_RATES, GLOBAL_LAST_CANDLES, GLOBAL_EXTREMUMS,
                    lifespan_pc, response, tags, Unused23 >>

\* The query of brain_calendar or of the event index raises: printed, and
\* preload_all_data returns.  The lifespan handler goes on to its yield.
CalendarFailed23 ==
    /\ preload_pc.step \in {"brain_calendar", "event_index"}
    /\ tags' = Tagged23(tags, {"GLOBAL_CALENDAR"}, "failed")
    /\ preload_pc' = Idle
    /\ lifespan_pc' = "serving"
    /\ UNCHANGED << db, GLOBAL_WEIGHT_CODES, GLOBAL_CALENDAR, GLOBAL_HISTORY,
                    GLOBAL_RATES, GLOBAL_LAST_CANDLES, GLOBAL_EXTREMUMS,
                    response, Unused23 >>

\* the event index has arrived: the join fills calendar and history
EventIndexFetched23 ==
    /\ preload_pc.step = "event_index"
    /\ GLOBAL_CALENDAR' = Loaded23[db].GLOBAL_CALENDAR
    /\ GLOBAL_HISTORY' = Loaded23[db].GLOBAL_HISTORY
    /\ tags' = Tagged23(tags, {"GLOBAL_CALENDAR"}, "built")
    /\ preload_pc' = At("connect_rates", 0)
    /\ UNCHANGED << db, GLOBAL_WEIGHT_CODES, GLOBAL_RATES, GLOBAL_LAST_CANDLES,
                    GLOBAL_EXTREMUMS, lifespan_pc, response, Unused23 >>

\* the connection for the rates is there: the loop empties the rates and
\* the candle list of the first table and sends its query
RatesConnected23 ==
    /\ preload_pc.step = "connect_rates"
    /\ GLOBAL_RATES' = Put(GLOBAL_RATES, Tables[1], EmptyDict)
    /\ GLOBAL_LAST_CANDLES' = Put(GLOBAL_LAST_CANDLES, Tables[1], <<>>)
    /\ tags' = Tagged23(tags, {Tables[1]}, "cleared")
    /\ preload_pc' = At("rows", 1)
    /\ UNCHANGED << db, GLOBAL_WEIGHT_CODES, GLOBAL_CALENDAR, GLOBAL_HISTORY,
                    GLOBAL_EXTREMUMS, lifespan_pc, response, Unused23 >>

\* The loop is done with table i: it empties the rates and the candle list
\* of the next table and sends its query, or, after the last table,
\* preload_all_data returns and the lifespan handler goes on to its yield.
\* rates, candles and tg are the caches and tags as table i has left them.
AfterTable23(i, rates, candles, tg) ==
    IF i < Len(Tables)
    THEN /\ GLOBAL_RATES' = Put(rates, Tables[i + 1], EmptyDict)
         /\ GLOBAL_LAST_CANDLES' = Put(candles, Tables[i + 1], <<>>)
         /\ tags' = Tagged23(tg, {Tables[i + 1]}, "cleared")
         /\ preload_pc' = At("rows", i + 1)
         /\ UNCHANGED lifespan_pc
    ELSE /\ GLOBAL_RATES' = rates
         /\ GLOBAL_LAST_CANDLES' = candles
         /\ tags' = tg
         /\ preload_pc' = Idle
         /\ lifespan_pc' = "serving"

\* the candles of the table have arrived; its extremum sets are set empty
RowsLoaded23 ==
    /\ preload_pc.step = "rows"
    /\ LET table == Tables[preload_pc.i]
       IN /\ GLOBAL_RATES' =
                 Put(GLOBAL_RATES, table, Loaded23[db].GLOBAL_RATES[table])
          /\ GLOBAL_LAST_CANDLES' =
                 Put(GLOBAL_LAST_CANDLES, table,
                     Loaded23[db].GLOBAL_LAST_CANDLES[table])
          /\ GLOBAL_EXTREMUMS' = Put(GLOBAL_EXTREMUMS, table, EmptyExtremums)
          /\ tags' = Tagged23(Tagged23(tags, {table}, "built"),
                              {MinOf(table), MaxOf(table)}, "cleared")
    /\ preload_pc' = At("min", preload_pc.i)
    /\ UNCHANGED << db, GLOBAL_WEIGHT_CODES, GLOBAL_CALENDAR, GLOBAL_HISTORY,
                    lifespan_pc, response, Unused23 >>

\* the query of the candles raises: printed, and the loop goes on
RowsFailed23 ==
    /\ preload_pc.step = "rows"
    /\ AfterTable23(preload_pc.i, GLOBAL_RATES, GLOBAL_LAST_CANDLES,
                    Tagged23(tags, {Tables[preload_pc.i]}, "failed"))
    /\ UNCHANGED << db, GLOBAL_WEIGHT_CODES, GLOBAL_CALENDAR, GLOBAL_HISTORY,
                    GLOBAL_EXTREMUMS, response, Unused23 >>

\* the extremum query for 'min' has returned
MinLoaded23 ==
    /\ preload_pc.step = "min"
    /\ LET table == Tables[preload_pc.i]
       IN /\ GLOBAL_EXTREMUMS' =
                 [GLOBAL_EXTREMUMS EXCEPT ![table].min =
                      Loaded23[db].GLOBAL_EXTREMUMS[table].min]
          /\ tags' = Tagged23(tags, {MinOf(table)}, "built")
    /\ preload_pc' = At("max", preload_pc.i)
    /\ UNCHANGED << db, GLOBAL_WEIGHT_CODES, GLOBAL_CALENDAR, GLOBAL_HISTORY,
                    GLOBAL_RATES, GLOBAL_LAST_CANDLES, lifespan_pc, response,
                    Unused23 >>

\* the extremum query for 'max' has returned
MaxLoaded23 ==
    /\ preload_pc.step = "max"
    /\ LET table == Tables[preload_pc.i]
       IN /\ GLOBAL_EXTREMUMS' =
                 [GLOBAL_EXTREMUMS EXCEPT ![table].max =
                      Loaded23[db].GLOBAL_EXTREMUMS[table].max]
          /\ AfterTable23(preload_pc.i, GLOBAL_RATES, GLOBAL_LAST_CANDLES,
                          Tagged23(tags, {MaxOf(table)}, "built"))
    /\ UNCHANGED << db, GLOBAL_WEIGHT_CODES, GLOBAL_CALENDAR, GLOBAL_HISTORY,
                    response, Unused23 >>

\* an extremum query raises: printed, and the loop goes on
ExtremumFailed23 ==
    /\ preload_pc.step \in {"min", "max"}
    /\ LET table == Tables[preload_pc.i]
           failed == IF preload_pc.step = "min" THEN MinOf(table) ELSE MaxOf(table)
       IN AfterTable23(preload_pc.i, GLOBAL_RATES, GLOBAL_LAST_CANDLES,
                       Tagged23(tags, {failed}, "failed"))
    /\ UNCHANGED << db, GLOBAL_WEIGHT_CODES, GLOBAL_CALENDAR, GLOBAL_HISTORY,
                    GLOBAL_EXTREMUMS, response, Unused23 >>

\* what get_values of service 23 returns, with what the handler saw
ValuesResponse23(p) ==
    [kind |-> "values",
     params |-> p,
     body |-> calculate_pure_memory_23(Snapshot, p.pair, p.day, p.date),
     reads |-> IF IsNone(parse_date_string_23(p.date)) THEN {}
               ELSE {"GLOBAL_CALENDAR"},
     seen |-> tags,
     reloading |-> FALSE,
     last_reload |-> LAST_RELOAD_TIME]

\* GET /values of service 23
GetValues23(p) ==
    /\ AcceptsRequests
    /\ response' = Some(ValuesResponse23(p))
    /\ UNCHANGED << db, GLOBAL_WEIGHT_CODES, GLOBAL_CALENDAR, GLOBAL_HISTORY,
                    GLOBAL_RATES, GLOBAL_LAST_CANDLES, GLOBAL_EXTREMUMS,
                    lifespan_pc, preload_pc, tags, Unused23 >>

\* the requests made of service 23
ServedParams23 ==
    { Params(1, 0, DateT0, 0, 0), Params(1, 1, DateT0, 0, 0),
      Params(1, 0, DateStr("space", 1, 13, 11), 0, 0),
      Params(1, 1, DateStr("date", 1, 13, 0), 0, 0),   \* date=2024-01-13
      Params(1, 0, NotADate, 0, 0) }

Next23 ==
    \/ LifespanEnter23
    \/ ConnectRaises23
    \/ WeightCodesLoaded23
    \/ WeightCodesFailed23
    \/ BrainCalendarFetched23
    \/ CalendarFailed23
    \/ EventIndexFetched23
    \/ RatesConnected23
    \/ RowsLoaded23
    \/ RowsFailed23
    \/ MinLoaded23
    \/ MaxLoaded23
    \/ ExtremumFailed23
    \/ \E p \in ServedParams23 : GetValues23(p)

Spec23 == Init23 /\ [][Next23]_vars

\* a date of the calendar written 'YYYY-MM-DD' or 'YYYY-MM-DD HH:MM:SS'
RealDateText(s) ==
    /\ s.shape \in {"date", "space"}
    /\ s.f2 \in 1..12
    /\ s.f3 \in 1..DaysInMonth[s.f2]
    /\ s.hh \in 0..23

\* C12: a /values request whose date is a real calendar date, written
\* 'YYYY-MM-DD' or 'YYYY-MM-DD HH:MM:SS', is answered with a map of weight
\* codes that has no "error" key, in every state the server can be in.
C12_RealDateAnswered ==
    (Answered /\ RealDateText(Asked.date)) =>
        "error" \notin DOMAIN Val(response).body

\* the releases of an event that are in the history
OccurrenceCount23(evt_id) == Len(Get(GLOBAL_HISTORY, evt_id, <<>>))

\* the assignments behind the entries of the map service 23 has returned
Returned23 ==
    SelectSeq(QueryEmissions23(Snapshot, Asked.pair, Asked.day, Asked.date),
              LAMBDA a : a.code \in DOMAIN Val(response).body)

\* C4: non-recurring containment.  An entry returned for an event that has
\* occurred once is for shift 0 and its code has no shift suffix.
C4_NonRecurringContainment ==
    Answered =>
        \A i \in 1..Len(Returned23) :
            LET a == Returned23[i]
            IN OccurrenceCount23(a.event_id) = 1 =>
                 /\ a.shift = 0
                 /\ a.code = ToString(a.event_id) \o "_" \o ToString(a.evt_type)
                                \o "_" \o ToString(a.mode)

\* C8: no request is handled before the first build is complete: when a
\* response is made, the build has loaded every section, or has tried to
\* and left that one section empty.
C8_ServedAfterFirstBuild ==
    ~IsNone(response) =>
        \A s \in DOMAIN Val(response).seen :
            Val(response).seen[s] \in {"built", "failed", "published"}

\* In service 27 an exception of the first build leaves the lifespan handler,
\* and LAST_RELOAD_TIME is set as the build returns: every response is made
\* after a build has run to its end.
FirstBuildBeforeRequests ==
    ~IsNone(response) => ~IsNone(Val(response).last_reload)

\* ------------------------------------------------------------------------
\* Service 32 (src/32/server.py): windows, candle-size percentiles and a
\* confidence factor chosen by `var`; the event types come from the index
\* ------------------------------------------------------------------------

\* var -> (wl, wr, candle_pct, conf_name, conf_param)
VAR_CONFIGS ==
    [var \in 0..4 |->
        CASE var = 0 -> [wl |-> -12, wr |-> 12, candle_pct |-> Some(50),
                         conf_name |-> "bayes", conf_param |-> 10]
          [] var = 1 -> [wl |-> -12, wr |-> 12, candle_pct |-> Some(75),
                         conf_name |-> "bayes", conf_param |-> 10]
          [] var = 2 -> [wl |-> -6, wr |-> 6, candle_pct |-> Some(50),
                         conf_name |-> "bayes", conf_param |-> 10]
          [] var = 3 -> [wl |-> -24, wr |-> 24, candle_pct |-> Some(50),
                         conf_name |-> "bayes", conf_param |-> 10]
          [] var = 4 -> [wl |-> -12, wr |-> 12, candle_pct |-> None,
                         conf_name |-> "none", conf_param |-> 0]]

\* a confidence that stops growing once five samples are in
ConfidenceSaturating(count, prior) ==
    IF count > 0 THEN Norm(Min2(count, 5), Min2(count, 5) + prior, 0) ELSE Zero

\* count / (count + prior) if count > 0 else 0.0
confidence_bayes(count, prior) ==
    IF count > 0 THEN Norm(count, count + prior, 0) ELSE Zero

confidence_none(count, prior) == Num(1, 0)

\* CONFIDENCE_FUNCS[conf_name](count, prior)
CONFIDENCE_FUNCS(conf_name, count, prior) ==
    IF conf_name = "bayes" THEN confidence_bayes(count, prior)
    ELSE confidence_none(count, prior)

\* GLOBAL_EVENT_TYPES[eid] = 1 if cnt > 1 else 0
RECURSIVE LoadEventTypes(_)
LoadEventTypes(rows) ==
    IF rows = <<>> THEN EmptyDict
    ELSE LET r == rows[Len(rows)]
             cnt == OrZero(r.occurrence_count)
         IN Put(LoadEventTypes(SubSeq(rows, 1, Len(rows) - 1)),
                r.event_id, IF cnt > 1 THEN 1 ELSE 0)

\* {'EventId': eid, 'Importance': imp, 'event_date': dt} under its date
RECURSIVE LoadCalendar32(_)
LoadCalendar32(rows) ==
    IF rows = <<>> THEN EmptyDict
    ELSE LET r == rows[Len(rows)]
             before == LoadCalendar32(SubSeq(rows, 1, Len(rows) - 1))
             dt == r.occurrence_time_utc
         IN Put(before, dt,
                Append(Get(before, dt, <<>>),
                       [EventId |-> r.event_id, Importance |-> r.importance,
                        event_date |-> dt]))

\* sz = abs(c - o) of a candle
CandleSize(r) == Num(Abs(r.close - r.open), 0)

LoadCandleSizes(rows) ==
    [dt \in {r.date : r \in rows} |-> CandleSize(CHOOSE r \in rows : r.date = dt)]

\* sizes_list.sort()
RECURSIVE SortSizes(_)
SortSizes(sizes) ==
    IF sizes = <<>> THEN <<>>
    ELSE LET rest == SortSizes(Tail(sizes))
             below == SelectSeq(rest, LAMBDA x : NumLt(x, Head(sizes)))
             above == SelectSeq(rest, LAMBDA x : ~NumLt(x, Head(sizes)))
         IN below \o << Head(sizes) >> \o above

\* the percentiles of the candle sizes: sizes_list[min(int(n * pct / 100), n - 1)]
LoadCandleThreshold(rows) ==
    LET sorted == SortByDate(rows)
        sizes_list == SortSizes([i \in 1..Len(sorted) |-> CandleSize(sorted[i])])
        n == Len(sizes_list)
    IN IF n = 0 THEN EmptyDict
       ELSE [pct \in {25, 50, 75, 90} |->
                sizes_list[Min2((n * pct) \div 100, n - 1) + 1]]

\* vlad_investing_event_index: event 2 has been seen v times in version v
EventIndexRows32(v) ==
    << [event_id |-> 1, occurrence_count |-> Some(v + 2)],
       [event_id |-> 2, occurrence_count |-> Some(v)],
       [event_id |-> 3, occurrence_count |-> None] >>

\* the caches once preload_all_data of service 32 has run to its end
BuildSnapshot32(v) ==
    [GLOBAL_WEIGHT_CODES |-> LoadWeightCodes(WeightRows(v)),
     GLOBAL_EVENT_TYPES |-> LoadEventTypes(EventIndexRows32(v)),
     GLOBAL_CALENDAR |-> LoadCalendar32(CalendarRows(v)),
     GLOBAL_HISTORY |-> AppendHistory(CalendarRows(v)),
     GLOBAL_RATES |-> [t \in TableSet |-> LoadRates(RateRows(t, v))],
     GLOBAL_LAST_CANDLES |-> [t \in TableSet |-> LoadLastCandles(RateRows(t, v))],
     GLOBAL_CANDLE_SIZES |-> [t \in TableSet |-> LoadCandleSizes(RateRows(t, v))],
     GLOBAL_CANDLE_THRESHOLD |-> [t \in TableSet |->
                                     LoadCandleThreshold(RateRows(t, v))],
     GLOBAL_EXTREMUMS |-> [t \in TableSet |->
                              [min |-> LoadExtremums(t, RateRows(t, v), "min"),
                               max |-> LoadExtremums(t, RateRows(t, v), "max")]]]

Loaded32 == [v \in 1..MaxDbVersion |-> BuildSnapshot32(v)]

\* the caches a request of service 32 reads, as one record
Snapshot32 ==
    [GLOBAL_WEIGHT_CODES |-> GLOBAL_WEIGHT_CODES,
     GLOBAL_EVENT_TYPES |-> GLOBAL_EVENT_TYPES,
     GLOBAL_CALENDAR |-> GLOBAL_CALENDAR,
     GLOBAL_HISTORY |-> GLOBAL_HISTORY,
     GLOBAL_RATES |-> GLOBAL_RATES,
     GLOBAL_LAST_CANDLES |-> GLOBAL_LAST_CANDLES,
     GLOBAL_CANDLE_SIZES |-> GLOBAL_CANDLE_SIZES,
     GLOBAL_CANDLE_THRESHOLD |-> GLOBAL_CANDLE_THRESHOLD,
     GLOBAL_EXTREMUMS |-> GLOBAL_EXTREMUMS]

\* range(wl, wr + 1) hours or days around the target
CheckDates32(target_date, day, var_cfg) ==
    [i \in 1..(var_cfg.wr - var_cfg.wl + 1) |->
        target_date + (var_cfg.wl + i - 1) * Unit(day)]

\* (e, shift, evt_type) for the events of the window that are needed
NeededEvents32(G, events, target_date, day) ==
    LET triple(e) ==
            [e |-> e, shift |-> ShiftOf(target_date, e.event_date, day),
             evt_type |-> Get(G.GLOBAL_EVENT_TYPES, e.EventId, 0)]
        triples == [i \in 1..Len(events) |-> triple(events[i])]
    IN SelectSeq(triples, LAMBDA t : Needed23(t.evt_type, t.shift))

\* GLOBAL_CANDLE_THRESHOLD.get(rates_table, {}).get(candle_pct, 0), or 0
SizeThreshold32(G, rates_table, var_cfg) ==
    IF IsNone(var_cfg.candle_pct) THEN Zero
    ELSE Get(Get(G.GLOBAL_CANDLE_THRESHOLD, rates_table, EmptyDict),
             Val(var_cfg.candle_pct), Zero)

\* What one needed event assigns to `result`: key0, then key1 when a candle
\* before the target is known and a shifted date is left after the filter.
EventEmissions32(G, t, pair, day, target_date, var_cfg) ==
    LET rates_table == get_rates_table_name(pair, day)
        modification == get_modification_factor(pair)
        ram_rates == Get(G.GLOBAL_RATES, rates_table, EmptyDict)
        ram_ext == Get(G.GLOBAL_EXTREMUMS, rates_table, EmptyExtremums)
        prev_candle == find_prev_candle_trend(G, rates_table, target_date)
        size_threshold == SizeThreshold32(G, rates_table, var_cfg)
        sizes == Get(G.GLOBAL_CANDLE_SIZES, rates_table, EmptyDict)
        evt_id == t.e.EventId
        valid_dates == SelectSeq(Get(G.GLOBAL_HISTORY, evt_id, <<>>),
                                 LAMBDA d : d < target_date)
        t_dates == [i \in 1..Len(valid_dates) |->
                        valid_dates[i] + t.shift * Unit(day)]
        filtered_t_dates ==
            IF NumLt(Zero, size_threshold)
            THEN SelectSeq(t_dates,
                           LAMBDA td : NumLe(size_threshold, Get(sizes, td, Zero)))
            ELSE t_dates
        n == Len(filtered_t_dates)
        conf == CONFIDENCE_FUNCS(var_cfg.conf_name, n, var_cfg.conf_param)
        sum_t1 == SumT1_23(filtered_t_dates, ram_rates)
        made(mode, value) ==
            [code |-> Key23(evt_id, t.evt_type, mode, t.shift), mode |-> mode,
             value |-> value, event_id |-> evt_id, evt_type |-> t.evt_type,
             shift |-> t.shift, n |-> n, conf |-> conf]
        ext_set == IF Val(prev_candle)[2] THEN ram_ext.max ELSE ram_ext.min
        matches == Len(SelectSeq(filtered_t_dates, LAMBDA td : td \in ext_set))
        total == n
    IN IF valid_dates = <<>> THEN <<>>
       ELSE << made(0, NumMul(sum_t1, conf)) >>
            \o (IF ~IsNone(prev_candle) /\ total > 0
                THEN << made(1, NumMul(NumMul(Norm(2 * matches - total, total, 0),
                                              conf),
                                       modification)) >>
                ELSE <<>>)

RECURSIVE Emissions32(_, _, _, _, _, _)
Emissions32(G, needed, pair, day, target_date, var_cfg) ==
    IF needed = <<>> THEN <<>>
    ELSE EventEmissions32(G, Head(needed), pair, day, target_date, var_cfg)
         \o Emissions32(G, Tail(needed), pair, day, target_date, var_cfg)

\* the assignments a query of service 32 makes to `result`
QueryEmissions32(G, pair, day, date_str, type_, var) ==
    LET target_date == parse_date_string(date_str)
        var_cfg == VAR_CONFIGS[var]
    IN IF IsNone(target_date) \/ var \notin DOMAIN VAR_CONFIGS THEN <<>>
       ELSE Emissions32(G,
                NeededEvents32(G,
                    EventsInWindow(G, CheckDates32(Val(target_date), day, var_cfg),
                                   Val(target_date)),
                    Val(target_date), day),
                pair, day, Val(target_date), var_cfg)

\* {"error": f"Unknown var={var}. Valid: 0-{max(VAR_CONFIGS.keys())}"}
UnknownVarResult(var) ==
    [k \in {"error"} |-> "Unknown var=" \o ToString(var) \o ". Valid: 0-4"]

\* type_ is a parameter of the function and is read nowhere in its body
calculate_pure_memory_32(G, pair, day, date_str, type_, var) ==
    LET target_date == parse_date_string(date_str)
    IN IF IsNone(target_date) THEN ErrorResult
       ELSE IF var \notin DOMAIN VAR_CONFIGS THEN UnknownVarResult(var)
       ELSE Finalize(Assign23(QueryEmissions32(G, pair, day, date_str, type_, var)))

\* what get_values of service 32 returns, with what the handler saw
ValuesResponse32(p) ==
    [kind |-> "values",
     params |-> p,
     body |-> calculate_pure_memory_32(Snapshot32, p.pair, p.day, p.date,
                                       p.type, p.var),
     reads |-> IF IsNone(parse_date_string(p.date)) THEN {}
               ELSE {"GLOBAL_CALENDAR"},
     seen |-> tags,
     reloading |-> Reloading,
     last_reload |-> LAST_RELOAD_TIME]

\* GET /values of service 32: type and var are declared Query(0), any integer
GetValues32(p) ==
    /\ AcceptsRequests
    /\ IsNone(response)
    /\ response' = Some(ValuesResponse32(p))
    /\ UNCHANGED << db, caches, LAST_RELOAD_TIME, lifespan_pc, task_pc,
                    preload_pc, asked, tags, started_from, outcome, failures,
                    traced, codec, beside >>

\* service 32 between two reloads, its caches built from version v
Serving32(v) ==
    /\ db = v
    /\ GLOBAL_WEIGHT_CODES = Loaded32[v].GLOBAL_WEIGHT_CODES
    /\ GLOBAL_CTX_INDEX = EmptyDict
    /\ GLOBAL_CALENDAR = Loaded32[v].GLOBAL_CALENDAR
    /\ GLOBAL_HISTORY = Loaded32[v].GLOBAL_HISTORY
    /\ GLOBAL_RATES = Loaded32[v].GLOBAL_RATES
    /\ GLOBAL_LAST_CANDLES = Loaded32[v].GLOBAL_LAST_CANDLES
    /\ GLOBAL_CANDLE_RANGES = EmptyDict
    /\ GLOBAL_AVG_RANGE = EmptyDict
    /\ GLOBAL_EXTREMUMS = Loaded32[v].GLOBAL_EXTREMUMS
    /\ GLOBAL_EVENT_TYPES = Loaded32[v].GLOBAL_EVENT_TYPES
    /\ GLOBAL_CANDLE_SIZES = Loaded32[v].GLOBAL_CANDLE_SIZES
    /\ GLOBAL_CANDLE_THRESHOLD = Loaded32[v].GLOBAL_CANDLE_THRESHOLD
    /\ LAST_RELOAD_TIME = Now
    /\ lifespan_pc = "serving"
    /\ task_pc = "sleep"
    /\ preload_pc = Idle
    /\ response = None
    /\ asked = None
    /\ tags = [s \in Sections |-> "published"]
    /\ started_from = None
    /\ outcome = "none"
    /\ failures = 0
    /\ traced = 0
    /\ codec = None
    /\ applied = None

\* the integers a client may put in `type` and in `var`
TypesAsked32 == {-1, 0, 1, 2, 5}

VarsAsked32 == {-1, 0, 1, 2, 3, 4, 7}

AllParams32 ==
    { Params(pair, day, date, type, var) :
        pair \in {1, 3}, day \in {0, 1},
        date \in { DateT0, DateStr("space", 1, 13, 11), DateStr("date", 1, 13, 0),
                   NotADate },
        type \in TypesAsked32, var \in VarsAsked32 }

QueryInit32 == \E v \in 1..MaxDbVersion : Serving32(v)

QueryNext32 ==
    \/ \E p \in AllParams32 : GetValues32(p)
    \/ Send

SpecQuery32 == QueryInit32 /\ [][QueryNext32]_vars

\* C11: a request whose type is outside 0..2 or whose var is outside 0..4 is
\* answered with a map that has the key "error", and with no other key: it
\* never gets the weight values.
C11_OutOfRangeRefused ==
    (Answered /\ (Asked.type \notin 0..2 \/ Asked.var \notin 0..4)) =>
        DOMAIN Val(response).body = {"error"}

\* the modes of the assignments of service 32 that made the entries of the
\* answered map
ModesReturned32 ==
    LET made == QueryEmissions32(Snapshot32, Asked.pair, Asked.day, Asked.date,
                                 Asked.type, Asked.var)
    IN {made[i].mode : i \in {j \in 1..Len(made) :
                                  made[j].code \in DOMAIN Val(response).body}}

\* C19: the type parameter selects the emitted components.  With type = 1
\* every code of the answer is a magnitude code (mode 0), with type = 2
\* every code is an extremum code (mode 1); with type = 0 both may appear.
C19_TypeSelectsComponents ==
    (Answered /\ ~IsNone(parse_date_string(Asked.date))
              /\ Asked.var \in DOMAIN VAR_CONFIGS) =>
        /\ Asked.type = 1 => ModesReturned32 \subseteq {0}
        /\ Asked.type = 2 => ModesReturned32 \subseteq {1}

\* ------------------------------------------------------------------------
\* The registry of weight codes (src/25/weights.py fills
\* vlad_investing_weights_table) and GET /new_weights (src/32/server.py)
\* ------------------------------------------------------------------------

\* (event_id, etype) with etype = 1 if the event has more than one row
fetch_event_types(cal_rows) ==
    LET ids == {cal_rows[i].event_id : i \in 1..Len(cal_rows)}
        cnt(id) == Cardinality({i \in 1..Len(cal_rows) : cal_rows[i].event_id = id})
    IN {<<id, IF cnt(id) > 1 THEN 1 ELSE 0>> : id \in ids}

\* f"{event_id}_{event_type}_{mode}" and f"_{hour}" when there is an hour
RegistryCode(event_id, event_type, mode, hour) ==
    IntToChars(event_id) \o << "_" >> \o IntToChars(event_type) \o << "_" >>
    \o IntToChars(mode)
    \o (IF IsNone(hour) THEN <<>> ELSE << "_" >> \o IntToChars(Val(hour)))

RegistryRow(event_id, event_type, mode, hour) ==
    [weight_code |-> RegistryCode(event_id, event_type, mode, hour),
     EventId |-> event_id, event_type |-> event_type, mode_val |-> mode,
     hour_shift |-> hour]

\* the two base rows of every event, and for event_type 1 the rows of the
\* hours range(-12, 13), both modes
generate_rows_for_event(event_id, event_type) ==
    { RegistryRow(event_id, event_type, mode, None) : mode \in {0, 1} }
    \cup (IF event_type = 1
          THEN { RegistryRow(event_id, event_type, mode, Some(hour)) :
                    hour \in -12..12, mode \in {0, 1} }
          ELSE {})

\* vlad_investing_weights_table once weights.py has run on the calendar
RegistryRows(v) ==
    UNION { generate_rows_for_event(t[1], t[2]) :
                t \in fetch_event_types(CalendarRows(v)) }

Registry == [v \in 1..MaxDbVersion |-> RegistryRows(v)]

\* the value the query puts in the place of a NULL hour_shift
NULL_SHIFT == -999999

\* COALESCE(hour_shift, -999999)
Coalesce(hour_shift) == IF IsNone(hour_shift) THEN NULL_SHIFT ELSE Val(hour_shift)

\* the row comparison (a1, a2, a3, a4) > (b1, b2, b3, b4) of SQL
RowGreater(a, b) ==
    \/ a[1] > b[1]
    \/ a[1] = b[1] /\ a[2] > b[2]
    \/ a[1] = b[1] /\ a[2] = b[2] /\ a[3] > b[3]
    \/ a[1] = b[1] /\ a[2] = b[2] /\ a[3] = b[3] /\ a[4] > b[4]

\* ORDER BY EventId, event_type, mode_val, hour_shift IS NULL, hour_shift:
\* `hour_shift IS NULL` is 0 for a shift and 1 for NULL
OrderKey(r) ==
    << r.EventId, r.event_type, r.mode_val,
       IF IsNone(r.hour_shift) THEN 1 ELSE 0,
       IF IsNone(r.hour_shift) THEN 0 ELSE Val(r.hour_shift) >>

OrderBefore(a, b) ==
    \E k \in 1..5 :
        /\ \A j \in 1..(k - 1) : OrderKey(a)[j] = OrderKey(b)[j]
        /\ OrderKey(a)[k] < OrderKey(b)[k]

\* the selected rows in the order of the ORDER BY clause
RECURSIVE OrderRows(_)
OrderRows(rows) ==
    IF rows = {} THEN <<>>
    ELSE LET first == CHOOSE r \in rows : \A o \in rows \ {r} : OrderBefore(r, o)
         IN << first >> \o OrderRows(rows \ {first})

\* GET /new_weights?code=...: 400 stands for the HTTPException
get_new_weights(code, table) ==
    LET parts == Split(code, "_")
        eid == ParseInt(parts[1])
        etype == ParseInt(parts[2])
        mval == ParseInt(parts[3])
        hshift == IF Len(parts) > 3 THEN ParseInt(parts[4]) ELSE None
        bad == \/ IsNone(eid) \/ IsNone(etype) \/ IsNone(mval)
               \/ (Len(parts) > 3 /\ IsNone(hshift))
        cursor == << Val(eid), Val(etype), Val(mval), Coalesce(hshift) >>
        selected ==
            { r \in table :
                RowGreater(<< r.EventId, r.event_type, r.mode_val,
                              Coalesce(r.hour_shift) >>, cursor) }
        rows == OrderRows(selected)
    IN IF Len(parts) < 3
       THEN [status |-> 400, detail |-> "Invalid weight_code format"]
       ELSE IF bad
       THEN [status |-> 400, detail |-> "All components must be integers"]
       ELSE [status |-> 200,
             weights |-> [i \in 1..Len(rows) |-> rows[i].weight_code]]

\* what GET /new_weights returns, with what the handler saw
NewWeightsResponse(code) ==
    [kind |-> "new_weights",
     params |-> NoParams,
     code |-> code,
     body |-> get_new_weights(code, Registry[db]),
     reads |-> {},
     seen |-> tags,
     reloading |-> Reloading,
     last_reload |-> LAST_RELOAD_TIME]

\* GET /new_weights
GetNewWeights(code) ==
    /\ AcceptsRequests
    /\ IsNone(response)
    /\ response' = Some(NewWeightsResponse(code))
    /\ UNCHANGED << db, caches, LAST_RELOAD_TIME, lifespan_pc, task_pc,
                    preload_pc, asked, tags, started_from, outcome, failures,
                    traced, codec, beside >>

\* the cursors of the requests: every code of event 2, the first and the
\* last code of the registry, a code the registry does not hold, and texts
\* that are not codes
Cursors ==
    { r.weight_code : r \in generate_rows_for_event(2, 1) }
    \cup { RegistryCode(1, 1, 0, None), RegistryCode(3, 1, 1, Some(12)),
           RegistryCode(2, 0, 1, None), RegistryCode(0, 0, 0, None),
           << "2", "_", "1" >>, << "x", "_", "1", "_", "0" >>,
           << "2", "_", "1", "_", "0", "_", "x" >>,
           << "2", "_", "1", "_", "0", "_", "5", "_", "9" >> }

NewWeightsNext ==
    \/ \E code \in Cursors : GetNewWeights(code)
    \/ Send

SpecNewWeights == QueryInit32 /\ [][NewWeightsNext]_vars

\* a /new_weights response with a list of codes is waiting to be sent
Paged ==
    /\ ~IsNone(response)
    /\ Val(response).kind = "new_weights"
    /\ Val(response).body.status = 200

\* the registry row of a code
RowOf(code) == CHOOSE r \in Registry[db] : r.weight_code = code

\* the tuple a code decodes to: entity, type, mode, shift or None
TupleOf(parts) ==
    << Val(ParseInt(parts[1])), Val(ParseInt(parts[2])), Val(ParseInt(parts[3])),
       IF Len(parts) > 3 THEN ParseInt(parts[4]) ELSE None >>

RowTuple(r) == << r.EventId, r.event_type, r.mode_val, r.hour_shift >>

\* the lexicographic order on entity, type, mode, shift, a null shift
\* before every integer shift
TupleBefore(a, b) ==
    \/ a[1] < b[1]
    \/ a[1] = b[1] /\ a[2] < b[2]
    \/ a[1] = b[1] /\ a[2] = b[2] /\ a[3] < b[3]
    \/ /\ a[1] = b[1] /\ a[2] = b[2] /\ a[3] = b[3]
       /\ \/ IsNone(a[4]) /\ ~IsNone(b[4])
          \/ ~IsNone(a[4]) /\ ~IsNone(b[4]) /\ Val(a[4]) < Val(b[4])

\* the codes of the page are the registry codes after the cursor, all of
\* them and no other
PageHoldsWhatFollows ==
    Paged =>
        LET cursor == TupleOf(Split(Val(response).code, "_"))
        IN Range(Val(response).body.weights)
             = { r.weight_code : r \in
                    { x \in Registry[db] : TupleBefore(cursor, RowTuple(x)) } }

\* C14: keyset pagination.  The page of a cursor holds exactly the registry
\* codes whose tuple comes after the cursor's in the order entity, type,
\* mode, shift with a null shift first, the cursor itself left out, and
\* the codes of the page are listed in that order.
C14_KeysetPagination ==
    Paged =>
        LET weights == Val(response).body.weights
        IN /\ PageHoldsWhatFollows
           /\ \A i \in 1..Len(weights) : \A j \in (i + 1)..Len(weights) :
                 TupleBefore(RowTuple(RowOf(weights[i])), RowTuple(RowOf(weights[j])))

\* ------------------------------------------------------------------------
\* The confidence of a variant, applied to sample counts
\* (src/32/server.py, calculate_pure_memory: n = len(filtered_t_dates),
\* conf = conf_fn(n, conf_param))
\* ------------------------------------------------------------------------

\* the longest filtered history the counts are drawn from
MaxCount == 12

\* conf_fn(n, conf_param) for two histories of a variant
ApplyConfidence(var, n1, n2) ==
    /\ LET cfg == VAR_CONFIGS[var]
       IN applied' = Some([var |-> var, n1 |-> n1, n2 |-> n2,
                           conf1 |-> CONFIDENCE_FUNCS(cfg.conf_name, n1, cfg.conf_param),
                           conf2 |-> CONFIDENCE_FUNCS(cfg.conf_name, n2, cfg.conf_param)])
    /\ UNCHANGED << db, caches, LAST_RELOAD_TIME, lifespan_pc, task_pc,
                    preload_pc, response, asked, tags, started_from, outcome,
                    failures, traced, codec, GLOBAL_EVENT_TYPES,
                    GLOBAL_CANDLE_SIZES, GLOBAL_CANDLE_THRESHOLD >>

ConfidenceNext ==
    \E var \in DOMAIN VAR_CONFIGS, n1 \in 0..MaxCount, n2 \in 0..MaxCount :
        ApplyConfidence(var, n1, n2)

SpecConfidence == Init /\ [][ConfidenceNext]_vars

\* the variant of the applied confidence is one with confidence_bayes and
\* prior 10
BayesApplied ==
    /\ ~IsNone(applied)
    /\ VAR_CONFIGS[Val(applied).var].conf_name = "bayes"
    /\ VAR_CONFIGS[Val(applied).var].conf_param = 10

\* C17: confidence monotonicity.  For the prior 10 of the variants with
\* confidence_bayes and sample counts n1 < n2, conf(n1) < conf(n2) < 1,
\* where conf(n) = n / (n + 10).
C17_ConfidenceMonotone ==
    (BayesApplied /\ Val(applied).n1 < Val(applied).n2) =>
        /\ NumLt(Val(applied).conf1, Val(applied).conf2)
        /\ NumLt(Val(applied).conf2, Num(1, 0))
        /\ NumEq(Val(applied).conf2, Norm(Val(applied).n2, Val(applied).n2 + 10, 0))

\* two counts beyond five samples, one more in the second
C17_SixAfterFive ==
    /\ BayesApplied
    /\ Val(applied).n1 = 5
    /\ Val(applied).n2 = 6
    /\ NumLt(Val(applied).conf1, Val(applied).conf2)

\* ------------------------------------------------------------------------
\* compute_t1_value applied to lists of timestamps (src/27/server.py)
\* ------------------------------------------------------------------------

\* the longest list of shifted timestamps
MaxDates == 2

\* the timestamps of the lists; the last one is in no price series
T1Stamps == {T0 - 3, T0 - 2, T0 - 1}

T1Lists == UNION {[1..n -> T1Stamps] : n \in 0..MaxDates}

\* price series: none, and one with a fall and a rise
T1Rates ==
    {EmptyDict,
     Put(Put(EmptyDict, T0 - 3, Num(-3, -1)), T0 - 2, Num(2, -1))}

\* candle ranges: of every timestamp, and of the first one only
T1Ranges ==
    {Put(Put(Put(EmptyDict, T0 - 3, Num(5, -1)), T0 - 2, Num(1, -1)), T0 - 1, Num(3, -1)),
     Put(EmptyDict, T0 - 3, Num(5, -1))}

T1Averages == {Zero, Num(3, -1)}

\* compute_t1_value(t_dates, calc_var, ram_rates, candle_ranges, avg_range)
ApplyT1(t_dates, calc_var, ram_rates, candle_ranges, avg_range) ==
    /\ applied' = Some([t_dates |-> t_dates, calc_var |-> calc_var,
                        ram_rates |-> ram_rates, candle_ranges |-> candle_ranges,
                        avg_range |-> avg_range,
                        total |-> compute_t1_value(t_dates, calc_var, ram_rates,
                                                   candle_ranges, avg_range)])
    /\ UNCHANGED << db, caches, LAST_RELOAD_TIME, lifespan_pc, task_pc,
                    preload_pc, response, asked, tags, started_from, outcome,
                    failures, traced, codec, GLOBAL_EVENT_TYPES,
                    GLOBAL_CANDLE_SIZES, GLOBAL_CANDLE_THRESHOLD >>

T1Next ==
    \E t_dates \in T1Lists, calc_var \in 0..4, ram_rates \in T1Rates,
       candle_ranges \in T1Ranges, avg_range \in T1Averages :
        ApplyT1(t_dates, calc_var, ram_rates, candle_ranges, avg_range)

SpecT1 == Init /\ [][T1Next]_vars

\* the timestamps of the applied list whose candle range is strictly above
\* the average range
AboveAverage ==
    LET a == Val(applied)
    IN SelectSeq(a.t_dates,
                 LAMBDA d : /\ d \in DOMAIN a.candle_ranges
                            /\ NumLt(a.avg_range, a.candle_ranges[d]))

\* the price value of a timestamp, 0 when the series has none
PriceAt(d) ==
    IF d \in DOMAIN Val(applied).ram_rates THEN Val(applied).ram_rates[d] ELSE Zero

Linear(dates) == NumSum([i \in 1..Len(dates) |-> PriceAt(dates[i])])

SquaredSigned(dates) ==
    NumSum([i \in 1..Len(dates) |-> NumMul(PriceAt(dates[i]), NumAbs(PriceAt(dates[i])))])

RangeDelta(dates) ==
    NumSum([i \in 1..Len(dates) |->
               NumSub(Val(applied).candle_ranges[dates[i]], Val(applied).avg_range)])

\* C20: compute_t1_value implements the variant table.  0 is the sum of the
\* price values of all timestamps, 1 the same sum over the timestamps whose
\* candle range is strictly above the average range, 2 the sum of v*|v|
\* over all timestamps, 3 the sum of v*|v| over the filtered ones, 4 the
\* sum of (range - average range) over the filtered ones; a timestamp
\* missing from the price series adds 0.
C20_VariantTable ==
    ~IsNone(applied) =>
        LET a == Val(applied)
        IN /\ a.calc_var = 0 => NumEq(a.total, Linear(a.t_dates))
           /\ a.calc_var = 1 => NumEq(a.total, Linear(AboveAverage))
           /\ a.calc_var = 2 => NumEq(a.total, SquaredSigned(a.t_dates))
           /\ a.calc_var = 3 => NumEq(a.total, SquaredSigned(AboveAverage))
           /\ a.calc_var = 4 => NumEq(a.total, RangeDelta(AboveAverage))

\* variant 3 on a falling price kept by the filter and a rising one dropped
\* by it: the result is -(0.3 * 0.3)
C20_FilteredSquaredFall ==
    /\ ~IsNone(applied)
    /\ Val(applied).calc_var = 3
    /\ Val(applied).t_dates = << T0 - 3, T0 - 2 >>
    /\ AboveAverage = << T0 - 3 >>
    /\ PriceAt(T0 - 2) = Num(2, -1)
    /\ NumEq(Val(applied).total, Num(-9, -2))

\* ------------------------------------------------------------------------
\* The extremum sets of a completed build
\* ------------------------------------------------------------------------

\* the tables of daily candles
DayTables == {get_rates_table_name(pair, 1) : pair \in {1, 3, 4}}

\* the granularity of a table: a day for a _day table, an hour otherwise
Granularity(table) == IF table \in DayTables THEN HoursPerDay ELSE 1

\* the timestamps of a table whose high (low) is strictly above (below) the
\* high (low) of the rows one granularity unit before and after
StrictLocalExtremums(table, typ) ==
    LET rows == RateRows(table, db)
    IN {t1.date : t1 \in
           {r \in rows :
               \E t_prev \in rows, t_next \in rows :
                   /\ t_prev.date = r.date - Granularity(table)
                   /\ t_next.date = r.date + Granularity(table)
                   /\ ColBeats(typ, r, t_prev)
                   /\ ColBeats(typ, r, t_next)}}

\* C21: for every price table, sub-daily and daily alike, a timestamp is in
\* the max (min) extremum set exactly when the table has rows one unit of
\* its own granularity before and after it and its high (low) is strictly
\* greater (smaller) than at both neighbours.
C21_ExtremumsAtOwnGranularity ==
    (lifespan_pc = "serving" /\ \A s \in DOMAIN tags : tags[s] = "published") =>
        \A table \in Range(Tables) :
            /\ GLOBAL_EXTREMUMS[table].max = StrictLocalExtremums(table, "max")
            /\ GLOBAL_EXTREMUMS[table].min = StrictLocalExtremums(table, "min")

\* the same for the tables of hourly candles alone, whose granularity is the
\* interval of the query
HourlyExtremumsExact ==
    (lifespan_pc = "serving" /\ \A s \in DOMAIN tags : tags[s] = "published") =>
        \A table \in Range(Tables) \ DayTables :
            /\ GLOBAL_EXTREMUMS[table].max = StrictLocalExtremums(table, "max")
            /\ GLOBAL_EXTREMUMS[table].min = StrictLocalExtremums(table, "min")

\* ------------------------------------------------------------------------
\* The generation of the registry from a context index
\* (src/30/ecb_rate_weights.py, src/25/weights.py)
\* ------------------------------------------------------------------------

\* the most entries of an index
MaxIndex == 2

\* the row generate_rows_for_context yields
ContextRow(currency, rcd, td, md, mode, day_shift, occ_count) ==
    [weight_code |-> make_weight_code(currency, rcd, td, md, mode, day_shift),
     key |-> << currency, rcd, td, md >>, mode_val |-> mode,
     day_shift |-> day_shift, occurrence_count |-> occ_count]

\* the rows of the modes (0, 1) for one shift
ModeRows(currency, rcd, td, md, day_shift, occ_count) ==
    << ContextRow(currency, rcd, td, md, 0, day_shift, occ_count),
       ContextRow(currency, rcd, td, md, 1, day_shift, occ_count) >>

\* a generator whose shifts stop one short: range(SHIFT_MIN, SHIFT_MAX)
RowsShortOfLastShift(currency, rcd, td, md, occ_count) ==
    LET is_recurring == ~IsNone(occ_count) /\ Val(occ_count) > 1
        RECURSIVE shifted(_)
        shifted(day_shift) ==
            IF day_shift >= SHIFT_MAX THEN <<>>
            ELSE ModeRows(currency, rcd, td, md, Some(day_shift), occ_count)
                 \o shifted(day_shift + 1)
    IN ModeRows(currency, rcd, td, md, None, occ_count)
       \o (IF is_recurring THEN shifted(SHIFT_MIN) ELSE <<>>)

\* the rows in the order they are yielded: the base rows, then for a
\* recurring context the rows of range(SHIFT_MIN, SHIFT_MAX + 1)
generate_rows_for_context(currency, rcd, td, md, occ_count) ==
    LET is_recurring == ~IsNone(occ_count) /\ Val(occ_count) > 1
        RECURSIVE shifted(_)
        shifted(day_shift) ==
            IF day_shift >= SHIFT_MAX + 1 THEN <<>>
            ELSE ModeRows(currency, rcd, td, md, Some(day_shift), occ_count)
                 \o shifted(day_shift + 1)
    IN ModeRows(currency, rcd, td, md, None, occ_count)
       \o (IF is_recurring THEN shifted(SHIFT_MIN) ELSE <<>>)

\* all_rows() of main: the rows of every context of ctx_rows, in order
RECURSIVE all_rows(_)
all_rows(ctx_rows) ==
    IF ctx_rows = <<>> THEN <<>>
    ELSE LET c == Head(ctx_rows)
         IN generate_rows_for_context(c.currency, c.rate_change_dir, c.trend_dir,
                                      c.momentum_dir, c.occurrence_count)
            \o all_rows(Tail(ctx_rows))

\* the rows generate_rows_for_event yields, in order
EventRowsYielded(event_id, event_type) ==
    LET row(mode, hour) ==
            [weight_code |-> RegistryCode(event_id, event_type, mode, hour),
             key |-> << event_id >>, mode_val |-> mode, day_shift |-> hour,
             occurrence_count |-> None]
        RECURSIVE hours(_)
        hours(hour) ==
            IF hour >= 13 THEN <<>>
            ELSE << row(0, Some(hour)), row(1, Some(hour)) >> \o hours(hour + 1)
    IN << row(0, None), row(1, None) >>
       \o (IF event_type = 1 THEN hours(-12) ELSE <<>>)

\* all_rows() of main of src/25/weights.py
RECURSIVE all_rows_25(_)
all_rows_25(event_types) ==
    IF event_types = <<>> THEN <<>>
    ELSE EventRowsYielded(Head(event_types)[1], Head(event_types)[2])
         \o all_rows_25(Tail(event_types))

\* the contexts of an index: a key of the context index with the count of
\* its occurrences (NULL, once, more than once)
ContextEntries ==
    { [currency |-> e, rate_change_dir |-> rcd, trend_dir |-> Word_ABOVE,
       momentum_dir |-> Word_UNKNOWN, occurrence_count |-> occ] :
        e \in Entities, rcd \in {Word_UP, Word_UNKNOWN},
        occ \in {None, Some(1), Some(3)} }

ContextKey(c) == << c.currency, c.rate_change_dir, c.trend_dir, c.momentum_dir >>

\* the lists fetch_context_rows can return: the key is the primary key of
\* the context index, so no two rows have the same key
ContextIndexes ==
    UNION { { s \in [1..n -> ContextEntries] :
                \A i, j \in 1..n : i # j => ContextKey(s[i]) # ContextKey(s[j]) } :
            n \in 1..MaxIndex }

\* the lists fetch_event_types can return: one row per event_id
EventTypeLists ==
    UNION { { s \in [1..n -> (1..3) \X {0, 1}] :
                \A i, j \in 1..n : i # j => s[i][1] # s[j][1] } :
            n \in 1..MaxIndex }

\* main of src/30/ecb_rate_weights.py generates the rows of an index
GenerateContexts(ctx_rows) ==
    /\ applied' = Some([index |-> [i \in 1..Len(ctx_rows) |->
                                      [key |-> ContextKey(ctx_rows[i]),
                                       recurring |-> /\ ~IsNone(ctx_rows[i].occurrence_count)
                                                     /\ Val(ctx_rows[i].occurrence_count) > 1]],
                        rows |-> all_rows(ctx_rows)])
    /\ UNCHANGED << db, caches, LAST_RELOAD_TIME, lifespan_pc, task_pc,
                    preload_pc, response, asked, tags, started_from, outcome,
                    failures, traced, codec, GLOBAL_EVENT_TYPES,
                    GLOBAL_CANDLE_SIZES, GLOBAL_CANDLE_THRESHOLD >>

\* main of src/25/weights.py generates the rows of the event types
GenerateEvents(event_types) ==
    /\ applied' = Some([index |-> [i \in 1..Len(event_types) |->
                                      [key |-> << event_types[i][1] >>,
                                       recurring |-> event_types[i][2] = 1]],
                        rows |-> all_rows_25(event_types)])
    /\ UNCHANGED << db, caches, LAST_RELOAD_TIME, lifespan_pc, task_pc,
                    preload_pc, response, asked, tags, started_from, outcome,
                    failures, traced, codec, GLOBAL_EVENT_TYPES,
                    GLOBAL_CANDLE_SIZES, GLOBAL_CANDLE_THRESHOLD >>

RegistryNext ==
    \/ \E ctx_rows \in ContextIndexes : GenerateContexts(ctx_rows)
    \/ \E event_types \in EventTypeLists : GenerateEvents(event_types)

SpecRegistry == Init /\ [][RegistryNext]_vars

\* the rows generated for one entry of the index
RowsOfEntry(key) ==
    SelectSeq(Val(applied).rows, LAMBDA r : r.key = key)

\* C22: registry generation.  A non-recurring entry of the index expands
\* into exactly 2 base codes (mode 0 and mode 1, no shift); a recurring one
\* (occurrence_count > 1) into exactly 2 + 2 * 25 codes, the base codes and
\* one code per mode for every shift in -12..12; the codes generated over
\* the whole index are pairwise distinct.
C22_RegistryGeneration ==
    ~IsNone(applied) =>
        LET rows == Val(applied).rows
            index == Val(applied).index
        IN /\ \A i \in 1..Len(index) :
                LET mine == RowsOfEntry(index[i].key)
                    shape == {<< mine[j].mode_val, mine[j].day_shift >> : j \in 1..Len(mine)}
                IN IF index[i].recurring
                   THEN /\ Len(mine) = 2 + 2 * 25
                        /\ shape = {0, 1} \X ({None} \cup {Some(s) : s \in -12..12})
                   ELSE /\ Len(mine) = 2
                        /\ shape = {0, 1} \X {None}
           /\ \A i, j \in 1..Len(rows) :
                i # j => rows[i].weight_code # rows[j].weight_code

\* an index with a recurring context and a non-recurring one of the same
\* entity: 54 rows
C22_RecurringBesideSingle ==
    /\ ~IsNone(applied)
    /\ Len(Val(applied).index) = 2
    /\ Val(applied).index[1].recurring
    /\ ~Val(applied).index[2].recurring
    /\ Len(Val(applied).index[1].key) = 4
    /\ Val(applied).index[1].key[1] = Val(applied).index[2].key[1]
    /\ Len(Val(applied).rows) = 54

\* ------------------------------------------------------------------------
\* The context classifier (src/30/server.py classify_observations,
\* src/30/ecb_rate_context_idx.py, src/31/server.py
\* classify_market_observations)
\* ------------------------------------------------------------------------

\* The windows of the two moving averages.  The services set them to 5 and
\* 20 (src/30/server.py) or read them from the environment
\* (src/31/server.py); the classifier is run here on short windows.
SMA_SHORT == 2

SMA_LONG == 3

THRESHOLD_PCT == Num(3, -4)

\* the longest series
MaxSeries == 4

\* the rates of a series: zero, a rate, the rate 0.03 % above it and the
\* next one above that
SeriesRates == {Zero, Num(10000, -4), Num(10003, -4), Num(10004, -4)}

\* a / b for b # 0
NumDiv(a, b) ==
    LET sign == IF b.n < 0 THEN -1 ELSE 1
    IN Norm(sign * a.n * b.d, a.d * Abs(b.n), a.e - b.e)

\* a series [(date, rate), ...] sorted by date: the date of a point is its
\* place in the series
SeriesOf(rates) == [i \in 1..Len(rates) |-> << T0 + i, rates[i] >>]

\* sum(r for _, r in rates_sorted[idx - window + 1: idx + 1]) / window, and
\* None where idx < window - 1; idx counts from 0
_sma(rates_sorted, idx, window) ==
    IF idx < window - 1 THEN None
    ELSE Some(NumDivInt(NumSum([k \in 1..window |->
                                   rates_sorted[idx - window + 1 + k][2]]),
                        window))

\* a direction that is `up` from the threshold on
DirFromThreshold(a, b, up, down, flat) ==
    IF IsNone(a) \/ IsNone(b) \/ NumIsZero(Val(b)) THEN "UNKNOWN"
    ELSE LET pct == NumDiv(NumSub(Val(a), Val(b)), NumAbs(Val(b)))
         IN IF NumLe(THRESHOLD_PCT, pct) THEN up
            ELSE IF NumLt(pct, NumNeg(THRESHOLD_PCT)) THEN down
            ELSE flat

\* _dir(a, b, up, down, flat) on optional floats
_dir(a, b, up, down, flat) ==
    IF IsNone(a) \/ IsNone(b) \/ NumIsZero(Val(b)) THEN "UNKNOWN"
    ELSE LET pct == NumDiv(NumSub(Val(a), Val(b)), NumAbs(Val(b)))
         IN IF NumLt(THRESHOLD_PCT, pct) THEN up
            ELSE IF NumLt(pct, NumNeg(THRESHOLD_PCT)) THEN down
            ELSE flat

\* [(dt, rcd, td, md), ...], one tuple per point of the series
classify_observations(rates_sorted) ==
    [n \in 1..Len(rates_sorted) |->
        LET i == n - 1
            dt == rates_sorted[n][1]
            rate == rates_sorted[n][2]
            rcd == IF i = 0 THEN "UNKNOWN"
                   ELSE _dir(Some(rate), Some(rates_sorted[n - 1][2]),
                             "UP", "DOWN", "FLAT")
            sma_l == _sma(rates_sorted, i, SMA_LONG)
            td == IF IsNone(sma_l) THEN "UNKNOWN"
                  ELSE _dir(Some(rate), sma_l, "ABOVE", "BELOW", "AT")
            sma_s == _sma(rates_sorted, i, SMA_SHORT)
            md == IF IsNone(sma_s) \/ IsNone(sma_l) THEN "UNKNOWN"
                  ELSE _dir(sma_s, sma_l, "UP", "DOWN", "FLAT")
        IN << dt, rcd, td, md >>]

\* classify_observations is called on the series of one currency
Classify(rates) ==
    /\ applied' = Some([series |-> SeriesOf(rates),
                        results |-> classify_observations(SeriesOf(rates))])
    /\ UNCHANGED << db, caches, LAST_RELOAD_TIME, lifespan_pc, task_pc,
                    preload_pc, response, asked, tags, started_from, outcome,
                    failures, traced, codec, GLOBAL_EVENT_TYPES,
                    GLOBAL_CANDLE_SIZES, GLOBAL_CANDLE_THRESHOLD >>

ClassifyNext ==
    \E n \in 0..MaxSeries : \E rates \in [1..n -> SeriesRates] : Classify(rates)

SpecClassify == Init /\ [][ClassifyNext]_vars

\* the rate of the n-th point of the classified series
RateAt(n) == Val(applied).series[n][2]

\* the average of the `window` rates that end at the n-th point
AverageAt(n, window) == NumDivInt(NumSum([k \in 1..window |-> RateAt(n - window + k)]), window)

\* the label the statement gives to a against b # 0
Labelled(a, b, up, down, flat) ==
    LET diff == NumSub(a, b)
        band == NumMul(THRESHOLD_PCT, NumAbs(b))
    IN IF NumLt(band, diff) THEN up
       ELSE IF NumLt(diff, NumNeg(band)) THEN down
       ELSE flat

\* one tuple per point, in the order of the series, with labels of the
\* three vocabularies
OneTuplePerPoint ==
    /\ Len(Val(applied).results) = Len(Val(applied).series)
    /\ \A n \in 1..Len(Val(applied).series) :
         LET r == Val(applied).results[n]
         IN /\ r[1] = Val(applied).series[n][1]
            /\ r[2] \in {"UNKNOWN", "UP", "DOWN", "FLAT"}
            /\ r[3] \in {"UNKNOWN", "ABOVE", "BELOW", "AT"}
            /\ r[4] \in {"UNKNOWN", "UP", "DOWN", "FLAT"}

\* change is UNKNOWN at index 0 or after a value 0, otherwise the label
ChangeAsStated(n) ==
    Val(applied).results[n][2] =
        IF n = 1 \/ NumIsZero(RateAt(n - 1)) THEN "UNKNOWN"
        ELSE Labelled(RateAt(n), RateAt(n - 1), "UP", "DOWN", "FLAT")

\* the statement of C23 as it stands: trend is UNKNOWN with fewer than
\* SMA_LONG points and a label of ABOVE / BELOW / AT otherwise; momentum is
\* UNKNOWN when a moving average is undefined and a label of UP / DOWN /
\* FLAT otherwise
C23_ClassifierAsStated ==
    ~IsNone(applied) =>
        /\ OneTuplePerPoint
        /\ \A n \in 1..Len(Val(applied).series) :
             LET r == Val(applied).results[n]
             IN /\ ChangeAsStated(n)
                /\ IF n < SMA_LONG THEN r[3] = "UNKNOWN"
                   ELSE /\ r[3] \in {"ABOVE", "BELOW", "AT"}
                        /\ ~NumIsZero(AverageAt(n, SMA_LONG)) =>
                              r[3] = Labelled(RateAt(n), AverageAt(n, SMA_LONG),
                                              "ABOVE", "BELOW", "AT")
                /\ IF n < SMA_LONG \/ n < SMA_SHORT THEN r[4] = "UNKNOWN"
                   ELSE /\ r[4] \in {"UP", "DOWN", "FLAT"}
                        /\ ~NumIsZero(AverageAt(n, SMA_LONG)) =>
                              r[4] = Labelled(AverageAt(n, SMA_SHORT),
                                              AverageAt(n, SMA_LONG),
                                              "UP", "DOWN", "FLAT")

\* C23: the context classifier is total.  For every sorted series, the
\* empty one, one of a single point and one with values 0 included, there
\* is exactly one (change, trend, momentum) triple per point.  Change is
\* UNKNOWN at index 0 or when the previous value is 0; trend is UNKNOWN
\* when fewer than SMA_LONG points end at the index or the long average is
\* 0; momentum is UNKNOWN when either moving average is undefined or the
\* long average is 0; otherwise the label is UP / ABOVE when
\* (a - b) / |b| > theta, DOWN / BELOW when it is < -theta, and FLAT / AT
\* in between, both bounds included.
C23_ClassifierTotal ==
    ~IsNone(applied) =>
        /\ OneTuplePerPoint
        /\ \A n \in 1..Len(Val(applied).series) :
             LET r == Val(applied).results[n]
             IN /\ ChangeAsStated(n)
                /\ r[3] = IF n < SMA_LONG \/ NumIsZero(AverageAt(n, SMA_LONG))
                          THEN "UNKNOWN"
                          ELSE Labelled(RateAt(n), AverageAt(n, SMA_LONG),
                                        "ABOVE", "BELOW", "AT")
                /\ r[4] = IF n < SMA_LONG \/ n < SMA_SHORT
                             \/ NumIsZero(AverageAt(n, SMA_LONG))
                          THEN "UNKNOWN"
                          ELSE Labelled(AverageAt(n, SMA_SHORT),
                                        AverageAt(n, SMA_LONG),
                                        "UP", "DOWN", "FLAT")

\* a series with a long average of 0 at one point, where trend and momentum
\* are UNKNOWN, and a trend label at a later point
C23_ZeroAverageThenLabels ==
    /\ ~IsNone(applied)
    /\ \E n \in SMA_LONG..Len(Val(applied).series) :
         /\ NumIsZero(AverageAt(n, SMA_LONG))
         /\ Val(applied).results[n][3] = "UNKNOWN"
         /\ Val(applied).results[n][4] = "UNKNOWN"
    /\ \E n \in SMA_LONG..Len(Val(applied).series) :
         Val(applied).results[n][3] = "ABOVE"

\* ------------------------------------------------------------------------
\* The history behind a code
\* ------------------------------------------------------------------------

\* the context an event had at one of its releases, from the calendar of
\* the snapshot
ContextAt(event_id, dt) ==
    LET entries == SelectSeq(Get(GLOBAL_CALENDAR, dt, <<>>),
                             LAMBDA ev : ev.EventId = event_id)
    IN resolve_event_context(entries[1].actual, entries[1].forecast,
                             entries[1].previous)

\* C24: every historical timestamp that contributes to the value of a code
\* for (event, context) is a timestamp at which the event had exactly that
\* context; releases of the event under another context never contribute.
C24_HistoryOfTheContext ==
    (Answered /\ ~IsNone(parse_date_string(Asked.date))) =>
        \A i \in 1..Len(Returned) : \A j \in 1..Len(Returned[i].valid_dates) :
            ContextAt(Returned[i].event_id, Returned[i].valid_dates[j])
                = Returned[i].context

\* ------------------------------------------------------------------------
\* The candle before the target
\* ------------------------------------------------------------------------

\* the candle list of the table of the answered request
CandlesAsked == Get(GLOBAL_LAST_CANDLES, get_rates_table_name(Asked.pair, Asked.day), <<>>)

\* what find_prev_candle_trend gave the answered request
PrevCandle == find_prev_candle_trend(Snapshot, get_rates_table_name(Asked.pair, Asked.day), Target)

\* the extremum value of an addition against a set of timestamps
ExtremumAgainst(a, ext_set) ==
    LET table == get_rates_table_name(Asked.pair, Asked.day)
    IN compute_extremum_value(a.t_dates, Asked.var, ext_set,
                              Get(GLOBAL_CANDLE_RANGES, table, EmptyDict),
                              Get(GLOBAL_AVG_RANGE, table, Zero),
                              get_modification_factor(Asked.pair),
                              Len(a.valid_dates))

\* C25: find_prev_candle_trend returns the candle with the greatest
\* timestamp strictly less than the target, never a candle at the target
\* itself whatever its flag, and None when there is no such candle; the
\* extremum component uses the max set if that candle is bullish and the
\* min set otherwise, and no extremum code is emitted when it is None.
C25_PreviousCandle ==
    (Answered /\ ~IsNone(parse_date_string(Asked.date))) =>
        LET before == {i \in 1..Len(CandlesAsked) : CandlesAsked[i][1] < Target}
            table == get_rates_table_name(Asked.pair, Asked.day)
            sets == Get(GLOBAL_EXTREMUMS, table, EmptyExtremums)
        IN /\ IF before = {} THEN IsNone(PrevCandle)
              ELSE /\ ~IsNone(PrevCandle)
                   /\ \E i \in before : CandlesAsked[i] = Val(PrevCandle)
                   /\ \A i \in before : CandlesAsked[i][1] <= Val(PrevCandle)[1]
           /\ \A i \in 1..Len(Additions) :
                Additions[i].mode = 1 =>
                   /\ ~IsNone(PrevCandle)
                   /\ Some(Additions[i].value)
                        = ExtremumAgainst(Additions[i],
                                          IF Val(PrevCandle)[2] THEN sets.max
                                          ELSE sets.min)

\* a request whose table has a bullish candle at the target itself and a
\* bearish one before it: an extremum code is emitted, against the min set
C25_BullishAtTargetBearishBefore ==
    /\ Answered
    /\ ~IsNone(parse_date_string(Asked.date))
    /\ \E i \in 1..Len(CandlesAsked) : CandlesAsked[i] = << Target, TRUE >>
    /\ ~IsNone(PrevCandle)
    /\ ~Val(PrevCandle)[2]
    /\ Val(PrevCandle)[1] < Target
    /\ \E i \in 1..Len(Returned) :
         /\ Returned[i].mode = 1
         /\ ExtremumAgainst(Returned[i], GLOBAL_EXTREMUMS[get_rates_table_name(Asked.pair, Asked.day)].min)
              = Some(Returned[i].value)

\* a request whose table has no candle before the target: no extremum code
C25_NoCandleNoExtremum ==
    /\ Answered
    /\ ~IsNone(parse_date_string(Asked.date))
    /\ IsNone(PrevCandle)
    /\ Additions # <<>>
    /\ \A i \in 1..Len(Additions) : Additions[i].mode = 0

\* ------------------------------------------------------------------------
\* One build at a time
\* ------------------------------------------------------------------------

\* the callers of preload_all_data that are inside the call: the lifespan
\* handler at startup, the background task in its loop
Builders ==
    (IF lifespan_pc = "startup" THEN 1 ELSE 0) + (IF task_pc = "reload" THEN 1 ELSE 0)

\* C26: at most one build is in progress at any time.  The initial
\* preload_all_data finishes before the background task is created, and in
\* background_reload_data a rebuild returns or fails before the next sleep
\* and the next rebuild begin: a build is between two of its awaits exactly
\* when one caller is inside it, a rebuild begins only when no build is in
\* progress, and the sections are written only by the build in progress.
C26_OneBuildAtATime ==
    /\ [](/\ Builders <= 1
          /\ (preload_pc # Idle) <=> (Builders = 1)
          /\ lifespan_pc \in {"created", "startup", "failed"} => task_pc = "none")
    /\ [][/\ (task_pc' = "reload" /\ task_pc # "reload") =>
                (preload_pc = Idle /\ task_pc = "sleep" /\ lifespan_pc = "serving")
          /\ (task_pc = "reload" /\ task_pc' # "reload") => preload_pc' = Idle
          /\ caches' # caches => (Builders = 1 /\ preload_pc # Idle)]_vars

\* a second rebuild is between two of its awaits, after the first rebuild
\* has failed and the task has slept again
C26_SecondRebuildAfterFailure ==
    /\ task_pc = "reload"
    /\ failures = 1
    /\ preload_pc.step = "rows"
    /\ lifespan_pc = "serving"

\* ------------------------------------------------------------------------
\* The timestamps a query looks up
\* ------------------------------------------------------------------------

\* C27: no look-ahead on prices.  Every timestamp a query looks up in the
\* price series, the candle ranges and the extremum sets, a causal history
\* timestamp moved by the shift, is strictly less than the target, for every
\* accepted shift in -WINDOW..WINDOW.
C27_NoLookAhead ==
    (Answered /\ ~IsNone(parse_date_string(Asked.date))) =>
        \A i \in 1..Len(Returned) :
            /\ Returned[i].shift \in -WINDOW..WINDOW
            /\ \A j \in 1..Len(Returned[i].t_dates) : Returned[i].t_dates[j] < Target

\* the timestamps looked up at a shift that is zero or negative are before
\* the target
BackwardShiftsAreCausal ==
    (Answered /\ ~IsNone(parse_date_string(Asked.date))) =>
        \A i \in 1..Len(Returned) :
            Returned[i].shift <= 0 =>
                \A j \in 1..Len(Returned[i].t_dates) : Returned[i].t_dates[j] < Target

\* ------------------------------------------------------------------------
\* parse_date_string applied to the spellings of one date
\* ------------------------------------------------------------------------

\* parse_date_string is called with 'YYYY-MM-DD', 'YYYY-MM-DD 00:00:00' and
\* 'YYYY-MM-DDT00:00:00' of the same month and day
ParseSpellings(month, day) ==
    /\ applied' = Some([month |-> month, day |-> day,
                        date_only |-> parse_date_string(DateStr("date", month, day, 0)),
                        with_space |-> parse_date_string(DateStr("space", month, day, 0)),
                        with_t |-> parse_date_string(DateStr("T", month, day, 0))])
    /\ UNCHANGED << db, caches, LAST_RELOAD_TIME, lifespan_pc, task_pc,
                    preload_pc, response, asked, tags, started_from, outcome,
                    failures, traced, codec, GLOBAL_EVENT_TYPES,
                    GLOBAL_CANDLE_SIZES, GLOBAL_CANDLE_THRESHOLD >>

ParseNext ==
    \E month \in 1..12, day \in 1..31 : ValidDate(month, day) /\ ParseSpellings(month, day)

SpecParse == Init /\ [][ParseNext]_vars

\* C28: parse_date_string is consistent across its formats.  For every
\* valid calendar date the strings 'YYYY-MM-DD', 'YYYY-MM-DD 00:00:00' and
\* 'YYYY-MM-DDT00:00:00' parse to the same timestamp, the second field read
\* as the month and the third as the day.
C28_SpellingsAgree ==
    ~IsNone(applied) =>
        LET a == Val(applied)
            midnight == Some(ToHours(a.month, a.day, 0))
        IN /\ a.date_only = midnight
           /\ a.with_space = midnight
           /\ a.with_t = midnight

\* the spellings agree on the dates that cannot be read with the day first:
\* a third field above 12, or equal to the second
SpellingsAgreeWhenDayFirstFails ==
    (~IsNone(applied) /\ (Val(applied).day > 12 \/ Val(applied).day = Val(applied).month)) =>
        LET a == Val(applied)
            midnight == Some(ToHours(a.month, a.day, 0))
        IN /\ a.date_only = midnight
           /\ a.with_space = midnight
           /\ a.with_t = midnight

\* ------------------------------------------------------------------------
\* The query of src/30/server.py: calculate_pure_memory on the caches its
\* preload builds from a context index, the ECB rates of a currency and
\* the candles of the tables
\* ------------------------------------------------------------------------

\* the longest ECB series of a currency
MaxObs == 5

\* the labels of classify_observations, as the keys of the encoding maps
Word(label) ==
    CASE label = "UNKNOWN" -> Word_UNKNOWN
      [] label = "UP" -> Word_UP
      [] label = "DOWN" -> Word_DOWN
      [] label = "FLAT" -> Word_FLAT
      [] label = "ABOVE" -> Word_ABOVE
      [] label = "BELOW" -> Word_BELOW
      [] label = "AT" -> Word_AT

\* a code with the double separators of the calendar services
WeightCodeDoubled(ccy, rcd, td, md, mode, day_shift) ==
    LET rcd_c == Get(RATE_CHANGE_MAP, rcd, "X")
        td_c == Get(TREND_MAP, td, "X")
        md_c == Get(MOMENTUM_MAP, md, "X")
        base == ccy \o << "_", "_", rcd_c, "_", "_", td_c, "_", "_", md_c, "_", "_" >>
                \o IntToChars(mode)
    IN IF IsNone(day_shift) THEN base
       ELSE base \o << "_", "_" >> \o IntToChars(Val(day_shift))

\* make_weight_code of the server: f"{ccy}_{rcd_c}_{td_c}_{md_c}_{mode}",
\* with f"_{day_shift}" after it unless day_shift is None
make_weight_code_30(ccy, rcd, td, md, mode, day_shift) ==
    LET rcd_c == Get(RATE_CHANGE_MAP, rcd, "X")
        td_c == Get(TREND_MAP, td, "X")
        md_c == Get(MOMENTUM_MAP, md, "X")
        base == ccy \o << "_", rcd_c, "_", td_c, "_", md_c, "_" >>
                \o IntToChars(mode)
    IN IF IsNone(day_shift) THEN base
       ELSE base \o << "_" >> \o IntToChars(Val(day_shift))

\* target_date.date(): the midnight of the day of a timestamp
DateOf(t) == (t \div HoursPerDay) * HoursPerDay

\* the day k days after the day of T0
DayFromT0(k) == DateOf(T0) + k * HoursPerDay

\* the elements of a set of timestamps in ascending order
RECURSIVE Ascending(_)
Ascending(S) ==
    IF S = {} THEN <<>>
    ELSE LET least == CHOOSE x \in S : \A y \in S : x <= y
         IN << least >> \o Ascending(S \ {least})

\* the elements of a set in the order the set iterates, which is fixed here
RECURSIVE Iterated(_)
Iterated(S) ==
    IF S = {} THEN <<>>
    ELSE LET first == CHOOSE x \in S : TRUE
         IN << first >> \o Iterated(S \ {first})

\* GLOBAL_CTX_INDEX[key] = {"occurrence_count": r["occurrence_count"] or 0}
LoadCtxIndex30(ctx_rows) ==
    [key \in {ContextKey(ctx_rows[i]) : i \in 1..Len(ctx_rows)} |->
        LET last == CHOOSE i \in 1..Len(ctx_rows) :
                        /\ ContextKey(ctx_rows[i]) = key
                        /\ \A j \in (i + 1)..Len(ctx_rows) : ContextKey(ctx_rows[j]) # key
        IN [occurrence_count |-> OrZero(ctx_rows[last].occurrence_count)]]

\* the observations of by_ccy: (currency, date, (rcd, td, md))
EcbObservations(by_ccy) ==
    UNION { { [ccy |-> ccy, dt |-> c[1],
               ctx |-> << Word(c[2]), Word(c[3]), Word(c[4]) >>] :
                c \in Range(classify_observations(by_ccy[ccy])) } :
            ccy \in DOMAIN by_ccy }

\* GLOBAL_ECB_CONTEXT[(ccy, dt)] = (rcd, td, md)
LoadEcbContext(by_ccy) ==
    LET obs == EcbObservations(by_ccy)
    IN [k \in { << o.ccy, o.dt >> : o \in obs } |->
           (CHOOSE o \in obs : << o.ccy, o.dt >> = k).ctx]

\* GLOBAL_ECB_OBS_DATES[dt].add(ccy)
LoadEcbObsDates(by_ccy) ==
    LET obs == EcbObservations(by_ccy)
    IN [dt \in { o.dt : o \in obs } |-> { o.ccy : o \in { p \in obs : p.dt = dt } }]

\* GLOBAL_ECB_CTX_HIST.setdefault(ctx_key, []).append(dt), then sorted
LoadEcbCtxHist(by_ccy) ==
    LET obs == EcbObservations(by_ccy)
    IN [key \in { << o.ccy >> \o o.ctx : o \in obs } |->
           Ascending({ o.dt : o \in { p \in obs : << p.ccy >> \o p.ctx = key } })]

\* the dates the extremum query selects: its JOINs are a day apart whatever
\* the table
LoadExtremums30(rows, typ) ==
    {r.date : r \in
        {t1 \in rows :
            \E t_prev \in rows, t_next \in rows :
                /\ t_prev.date = t1.date - HoursPerDay
                /\ t_next.date = t1.date + HoursPerDay
                /\ ColBeats(typ, t1, t_prev)
                /\ ColBeats(typ, t1, t_next)}}

\* the candles of the brain tables: the day table has a candle at the
\* midnight of the days around T0 and of the days twelve days later
RateRows30(table) ==
    IF table = "brain_rates_eur_usd_day"
    THEN { RateRow(DayFromT0(-4), 10, 12, Price(11010), Price(11000), Some(Num(25, -7))),
           RateRow(DayFromT0(-3), 12, 15, Price(11040), Price(11005), Some(Num(-3, -7))),
           RateRow(DayFromT0(-2), 15, 11, Price(11020), Price(10990), Some(Num(4, -7))),
           RateRow(DayFromT0(-1), 11, 10, Price(11030), Price(11002), Some(Num(3, -7))),
           RateRow(DayFromT0(0), 10, 13, Price(11025), Price(11000), Some(Num(-16, -7))),
           RateRow(DayFromT0(1), 13, 14, Price(11050), Price(11020), Some(Num(7, -7))),
           RateRow(DayFromT0(2), 14, 12, Price(11030), Price(11010), None),
           RateRow(DayFromT0(10), 12, 13, Price(11020), Price(11000), Some(Num(2, -6))),
           RateRow(DayFromT0(11), 13, 15, Price(11060), Price(11010), Some(Num(-9, -7))),
           RateRow(DayFromT0(12), 15, 14, Price(11040), Price(11015), Some(Num(11, -7))),
           RateRow(DayFromT0(13), 14, 16, Price(11045), Price(11020), Some(Num(5, -7))) }
    ELSE IF table = "brain_rates_eur_usd"
    THEN { RateRow(DayFromT0(-1), 11, 10, Price(11030), Price(11002), Some(Num(3, -7))),
           RateRow(DayFromT0(0), 10, 13, Price(11025), Price(11000), Some(Num(-16, -7))) }
    ELSE {}

\* the caches once preload_all_data of src/30/server.py has run to its end
BuildSnapshot30(ctx_rows, by_ccy) ==
    [GLOBAL_CTX_INDEX |-> LoadCtxIndex30(ctx_rows),
     GLOBAL_ECB_BY_CCY |-> by_ccy,
     GLOBAL_ECB_CONTEXT |-> LoadEcbContext(by_ccy),
     GLOBAL_ECB_OBS_DATES |-> LoadEcbObsDates(by_ccy),
     GLOBAL_ECB_CTX_HIST |-> LoadEcbCtxHist(by_ccy),
     GLOBAL_RATES |-> [t \in TableSet |-> LoadRates(RateRows30(t))],
     GLOBAL_LAST_CANDLES |-> [t \in TableSet |-> LoadLastCandles(RateRows30(t))],
     GLOBAL_CANDLE_RANGES |-> [t \in TableSet |-> LoadCandleRanges(RateRows30(t))],
     GLOBAL_AVG_RANGE |-> [t \in TableSet |-> LoadAvgRange(RateRows30(t))],
     GLOBAL_EXTREMUMS |-> [t \in TableSet |->
                              [min |-> LoadExtremums30(RateRows30(t), "min"),
                               max |-> LoadExtremums30(RateRows30(t), "max")]]]

\* [target_d + timedelta(days=d) for d in range(-window, window + 1)]
CheckDates30(target_d, window) ==
    [i \in 1..(2 * window + 1) |-> target_d + (i - window - 1) * HoursPerDay]

\* the observations of the check dates: (ccy, dt, ctx, shift)
RECURSIVE Observations30(_, _, _)
Observations30(E, dates, target_d) ==
    IF dates = <<>> THEN <<>>
    ELSE LET dt == Head(dates)
             ccys == Iterated(Get(E.GLOBAL_ECB_OBS_DATES, dt, {}))
             found == [i \in 1..Len(ccys) |->
                          [ccy |-> ccys[i], obs_date |-> dt,
                           ctx |-> Get(E.GLOBAL_ECB_CONTEXT, << ccys[i], dt >>, <<>>),
                           shift |-> (target_d - dt) \div HoursPerDay]]
         IN SelectSeq(found, LAMBDA o : o.ctx # <<>>)
            \o Observations30(E, Tail(dates), target_d)

\* what one observation adds to `result`, in order
ObservationEmissions30(E, o, pair, day, target_date, calc_type, calc_var) ==
    LET window == 12
        target_d == DateOf(target_date)
        rates_table == get_rates_table_name(pair, day)
        modification == get_modification_factor(pair)
        ram_rates == Get(E.GLOBAL_RATES, rates_table, EmptyDict)
        ram_ranges == Get(E.GLOBAL_CANDLE_RANGES, rates_table, EmptyDict)
        avg_range == Get(E.GLOBAL_AVG_RANGE, rates_table, Zero)
        ram_ext == Get(E.GLOBAL_EXTREMUMS, rates_table, EmptyExtremums)
        prev_candle == find_prev_candle_trend(E, rates_table, target_date)
        ctx_key == << o.ccy >> \o o.ctx
        known == ctx_key \in DOMAIN E.GLOBAL_CTX_INDEX
        is_recurring == E.GLOBAL_CTX_INDEX[ctx_key].occurrence_count
                            >= RECURRING_MIN_COUNT
        all_ctx_dates == Get(E.GLOBAL_ECB_CTX_HIST, ctx_key, <<>>)
        idx == bisect_left(all_ctx_dates, target_d)
        valid_dates == SubSeq(all_ctx_dates, 1, idx)
        t_dates == [i \in 1..Len(valid_dates) |->
                       valid_dates[i] + o.shift * HoursPerDay]
        day_shift_arg == IF is_recurring THEN Some(o.shift) ELSE None
        made(mode, value) ==
            [code |-> make_weight_code_30(o.ccy, o.ctx[1], o.ctx[2], o.ctx[3],
                                          mode, day_shift_arg),
             value |-> value, key |-> ctx_key, shift |-> o.shift,
             recurring |-> is_recurring, mode |-> mode]
        ext_set == IF Val(prev_candle)[2] THEN ram_ext.max ELSE ram_ext.min
        ext_val == compute_extremum_value(t_dates, calc_var, ext_set, ram_ranges,
                                          avg_range, modification, Len(valid_dates))
    IN IF ~known THEN <<>>
       ELSE IF ~is_recurring /\ o.shift # 0 THEN <<>>
       ELSE IF is_recurring /\ Abs(o.shift) > window THEN <<>>
       ELSE IF valid_dates = <<>> THEN <<>>
       ELSE (IF calc_type \in {0, 1}
             THEN << made(0, compute_t1_value(t_dates, calc_var, ram_rates,
                                              ram_ranges, avg_range)) >>
             ELSE <<>>)
            \o
            (IF calc_type \in {0, 2} /\ ~IsNone(prev_candle) /\ ~IsNone(ext_val)
             THEN << made(1, Val(ext_val)) >>
             ELSE <<>>)

RECURSIVE Emissions30(_, _, _, _, _, _, _)
Emissions30(E, observations, pair, day, target_date, calc_type, calc_var) ==
    IF observations = <<>> THEN <<>>
    ELSE ObservationEmissions30(E, Head(observations), pair, day, target_date,
                                calc_type, calc_var)
         \o Emissions30(E, Tail(observations), pair, day, target_date,
                        calc_type, calc_var)

\* the additions a query makes to `result` (none when the date is invalid)
QueryEmissions30(E, pair, day, date_str, calc_type, calc_var) ==
    LET target_date == parse_date_string(date_str)
    IN IF IsNone(target_date) THEN <<>>
       ELSE Emissions30(E,
                        Observations30(E, CheckDates30(DateOf(Val(target_date)), 12),
                                       DateOf(Val(target_date))),
                        pair, day, Val(target_date), calc_type, calc_var)

calculate_pure_memory_30(E, pair, day, date_str, calc_type, calc_var) ==
    LET target_date == parse_date_string(date_str)
    IN IF IsNone(target_date) THEN ErrorResult
       ELSE IF Observations30(E, CheckDates30(DateOf(Val(target_date)), 12),
                              DateOf(Val(target_date))) = <<>>
            THEN EmptyDict
       ELSE Finalize(Accumulate(
                QueryEmissions30(E, pair, day, date_str, calc_type, calc_var)))

\* the currency of the ECB series
Ccy30 == << "U", "S", "D" >>

\* the rates of the series: a rate and the rate 0.04 % above it
EcbRates30 == {Num(10000, -4), Num(10004, -4)}

\* vlad_ecb_exchange_rates of the currency, ordered by rate_date: a rate a
\* day, the fourth on the day of T0
EcbSeries(rates) == [i \in 1..Len(rates) |-> << DayFromT0(i - 4), rates[i] >>]

\* the keys an index can hold
IndexKeys30 ==
    << << Ccy30, Word_DOWN, Word_AT, Word_FLAT >>,
       << Ccy30, Word_UP, Word_AT, Word_FLAT >> >>

\* occurrence_count of a row of the index: NULL, once, more than once
Counts30 == {None, Some(1), Some(3)}

\* the rows of the index that holds the keys `present` with the counts occ
IndexRows30(present, occ) ==
    LET order == Ascending(present)
    IN [i \in 1..Len(order) |->
           [currency |-> IndexKeys30[order[i]][1],
            rate_change_dir |-> IndexKeys30[order[i]][2],
            trend_dir |-> IndexKeys30[order[i]][3],
            momentum_dir |-> IndexKeys30[order[i]][4],
            occurrence_count |-> occ[order[i]]]]

\* the dates asked: the day of T0, the two days after it, the day twelve
\* days after the last rate of the longest series, and no date at all
Targets30 ==
    { DateT0, DateStr("date", 1, 14, 0), DateStr("T", 1, 15, 0),
      DateStr("space", 1, 26, 0), DateStr("junk", 0, 0, 0) }

\* GET /values of src/30/server.py on the caches built from the index
\* ctx_rows and the series rates, beside the registry main of
\* src/30/ecb_rate_weights.py generates from the same index.  A request
\* reads the caches and leaves them alone, so a behaviour holds one request.
GetValues30(ctx_rows, rates, date_str, calc_type) ==
    LET E == BuildSnapshot30(ctx_rows, Ccy30 :> EcbSeries(rates))
    IN /\ IsNone(applied)
       /\ applied' = Some([ctx_rows |-> ctx_rows,
                           rows |-> all_rows(ctx_rows),
                           date_str |-> date_str,
                           calc_type |-> calc_type,
                           kind |-> IF IsNone(parse_date_string(date_str))
                                    THEN "error" ELSE "weights",
                           emissions |-> QueryEmissions30(E, 1, 1, date_str,
                                                          calc_type, 0),
                           result |-> calculate_pure_memory_30(E, 1, 1, date_str,
                                                               calc_type, 0)])
       /\ UNCHANGED << db, caches, LAST_RELOAD_TIME, lifespan_pc, task_pc,
                       preload_pc, response, asked, tags, started_from, outcome,
                       failures, traced, codec, GLOBAL_EVENT_TYPES,
                       GLOBAL_CANDLE_SIZES, GLOBAL_CANDLE_THRESHOLD >>

MemoryNext30 ==
    \E present \in SUBSET (1..Len(IndexKeys30)) :
        \E occ \in [present -> Counts30] :
            \E n \in (MaxObs - 1)..MaxObs :
                \E rates \in [1..n -> EcbRates30] :
                    \E date_str \in Targets30, calc_type \in {0, 1, 2} :
                        GetValues30(IndexRows30(present, occ), rates, date_str,
                                    calc_type)

SpecMemory30 == Init /\ [][MemoryNext30]_vars

\* the additions of the query whose code is a key of the map returned
Returning30(k) ==
    {i \in 1..Len(Val(applied).emissions) : Val(applied).emissions[i].code = k}

\* a context is recurring for the registry generator
RecurringInIndex(key) ==
    \E i \in 1..Len(Val(applied).ctx_rows) :
        /\ ContextKey(Val(applied).ctx_rows[i]) = key
        /\ ~IsNone(Val(applied).ctx_rows[i].occurrence_count)
        /\ Val(Val(applied).ctx_rows[i].occurrence_count) > 1

\* C29: every key of a map of weights calculate_pure_memory returns is a
\* weight_code of the registry generated from the same context index: it
\* is the code the registry generator makes for the tuple the server made
\* it for; for a context that is not recurring it is the base code (and the
\* shift is 0), for a recurring one it is the code of a shift in -12..12.
C29_KeysInRegistry ==
    (~IsNone(applied) /\ Val(applied).kind = "weights") =>
        LET a == Val(applied)
        IN \A k \in DOMAIN a.result :
            /\ \E j \in 1..Len(a.rows) : a.rows[j].weight_code = k
            /\ Returning30(k) # {}
            /\ \A i \in Returning30(k) :
                LET e == a.emissions[i]
                IN /\ \E j \in 1..Len(a.rows) :
                        /\ a.rows[j].weight_code = k
                        /\ a.rows[j].key = e.key
                        /\ a.rows[j].mode_val = e.mode
                        /\ a.rows[j].day_shift =
                              (IF RecurringInIndex(e.key) THEN Some(e.shift) ELSE None)
                   /\ k = make_weight_code(e.key[1], e.key[2], e.key[3], e.key[4], e.mode,
                                           IF RecurringInIndex(e.key)
                                           THEN Some(e.shift) ELSE None)
                   /\ IF RecurringInIndex(e.key) THEN e.shift \in SHIFT_MIN..SHIFT_MAX
                      ELSE e.shift = 0

\* a map with the code of a recurring context at the last shift of the
\* window, twelve days
C29_ShiftTwelveReturned ==
    /\ ~IsNone(applied)
    /\ Val(applied).kind = "weights"
    /\ \E k \in DOMAIN Val(applied).result :
        \E i \in Returning30(k) :
            /\ Val(applied).emissions[i].shift = 12
            /\ RecurringInIndex(Val(applied).emissions[i].key)

\* a map with the base code of a context that is not recurring beside the
\* shifted code of a recurring one
BaseBesideShifted30 ==
    /\ ~IsNone(applied)
    /\ Val(applied).kind = "weights"
    /\ \E k1, k2 \in DOMAIN Val(applied).result :
        /\ \E i \in Returning30(k1) : ~RecurringInIndex(Val(applied).emissions[i].key)
        /\ \E i \in Returning30(k2) :
            /\ RecurringInIndex(Val(applied).emissions[i].key)
            /\ Val(applied).emissions[i].shift # 0

\* ------------------------------------------------------------------------
\* Rebuilds of src/32/server.py: preload_all_data run again on caches that
\* an earlier build has filled
\* ------------------------------------------------------------------------

\* GLOBAL_CANDLE_SIZES.setdefault(table, {})[dt] = sz for the rows of a
\* table: the dictionary of the table is the one already there, if any
SizesAfterRows(old, rows) ==
    [dt \in (DOMAIN old) \cup {r.date : r \in rows} |->
        IF dt \in {r.date : r \in rows}
        THEN CandleSize(CHOOSE r \in rows : r.date = dt)
        ELSE old[dt]]

\* preload_all_data of src/32/server.py, run from its first line to its
\* last without an exception, on the content of the databases
Rebuild32 ==
    /\ lifespan_pc = "serving"
    /\ preload_pc = Idle
    /\ GLOBAL_WEIGHT_CODES' = LoadWeightCodes(WeightRows(db))
    /\ GLOBAL_EVENT_TYPES' = LoadEventTypes(EventIndexRows32(db))
    /\ GLOBAL_CALENDAR' = LoadCalendar32(CalendarRows(db))
    /\ GLOBAL_HISTORY' = AppendHistory(CalendarRows(db))
    /\ GLOBAL_RATES' = [t \in TableSet |-> LoadRates(RateRows(t, db))]
    /\ GLOBAL_LAST_CANDLES' = [t \in TableSet |-> LoadLastCandles(RateRows(t, db))]
    /\ GLOBAL_CANDLE_SIZES' =
           [t \in TableSet |->
               SizesAfterRows(Get(GLOBAL_CANDLE_SIZES, t, EmptyDict), RateRows(t, db))]
    /\ GLOBAL_CANDLE_THRESHOLD' = [t \in TableSet |-> LoadCandleThreshold(RateRows(t, db))]
    /\ GLOBAL_EXTREMUMS' =
           [t \in TableSet |-> [min |-> LoadExtremums(t, RateRows(t, db), "min"),
                                max |-> LoadExtremums(t, RateRows(t, db), "max")]]
    /\ LAST_RELOAD_TIME' = Now
    /\ response' = None
    /\ UNCHANGED << db, GLOBAL_CTX_INDEX, GLOBAL_CANDLE_RANGES, GLOBAL_AVG_RANGE,
                    lifespan_pc, task_pc, preload_pc, asked, tags, started_from,
                    outcome, failures, traced, codec, applied >>

\* the requests made between the rebuilds
ParamsRebuild32 ==
    { Params(pair, 0, DateT0, type, var) :
        pair \in {1, 3}, type \in {0, 1, 2}, var \in {0, 1, 2, 3, 4} }

RebuildNext32 ==
    \/ DbUpdate
    \/ Rebuild32
    \/ \E p \in ParamsRebuild32 : GetValues32(p)
    \/ Send

SpecRebuild32 == QueryInit32 /\ [][RebuildNext32]_vars

\* C30: after a successful rebuild the snapshot is the one a build from
\* scratch on the content of the databases produces: no section (calendar,
\* history, event types, price series, candle lists, candle sizes and
\* thresholds, extremum sets) keeps an entry that the latest pull does not
\* have.
C30_RebuildIsFromScratch ==
    [][Rebuild32 => Snapshot32' = Loaded32[db']]_vars

\* every section but the candle sizes is the one of a build from scratch
\* after a rebuild, and the candle sizes hold every entry of such a build
AllButSizesFromScratch32 ==
    [][Rebuild32 =>
          /\ [Snapshot32' EXCEPT !.GLOBAL_CANDLE_SIZES = <<>>]
                = [Loaded32[db'] EXCEPT !.GLOBAL_CANDLE_SIZES = <<>>]
          /\ \A t \in TableSet :
                \A dt \in DOMAIN Loaded32[db'].GLOBAL_CANDLE_SIZES[t] :
                    /\ dt \in DOMAIN GLOBAL_CANDLE_SIZES'[t]
                    /\ GLOBAL_CANDLE_SIZES'[t][dt] = Loaded32[db'].GLOBAL_CANDLE_SIZES[t][dt]]_vars

\* a request answered after a rebuild gets another body than the caches of
\* a build from scratch give
StaleSizeChangesAnswer32 ==
    /\ ~IsNone(response)
    /\ Val(response).kind = "values"
    /\ LET p == Val(response).params
       IN Val(response).body #
              calculate_pure_memory_32(Loaded32[db], p.pair, p.day, p.date, p.type, p.var)
    /\ [Snapshot32 EXCEPT !.GLOBAL_CANDLE_SIZES = <<>>]
          = [Loaded32[db] EXCEPT !.GLOBAL_CANDLE_SIZES = <<>>]

\* in src/27/server.py every section is emptied before it is filled: when a
\* build returns, the sections are those of a build from scratch
RebuildIsFromScratch27 ==
    [][AwaitLastMax =>
          /\ GLOBAL_WEIGHT_CODES' = Loaded[db'].GLOBAL_WEIGHT_CODES
          /\ GLOBAL_CTX_INDEX' = Loaded[db'].GLOBAL_CTX_INDEX
          /\ GLOBAL_CALENDAR' = Loaded[db'].GLOBAL_CALENDAR
          /\ GLOBAL_HISTORY' = Loaded[db'].GLOBAL_HISTORY
          /\ \A t \in Range(Tables) :
                /\ GLOBAL_RATES'[t] = Loaded[db'].GLOBAL_RATES[t]
                /\ GLOBAL_LAST_CANDLES'[t] = Loaded[db'].GLOBAL_LAST_CANDLES[t]
                /\ GLOBAL_CANDLE_RANGES'[t] = Loaded[db'].GLOBAL_CANDLE_RANGES[t]
                /\ GLOBAL_AVG_RANGE'[t] = Loaded[db'].GLOBAL_AVG_RANGE[t]
                /\ GLOBAL_EXTREMUMS'[t] = Loaded[db'].GLOBAL_EXTREMUMS[t]]_vars

====
